---------------------------- MODULE Spec2Model ----------------------------
(* A model of cmon: the complaint monitor's durable ledger (package        *)
(* storage: a CSV file plus in-memory maps), the page scraper with its     *)
(* worker pool, the resolved-elsewhere sweep and the Telegram handler.     *)
(*                                                                         *)
(* Strings are sequences of one-character strings, so that the CSV         *)
(* encoding (Go's encoding/csv Writer) and decoding (Reader.ReadAll) are   *)
(* computed character by character.                                        *)
EXTENDS Integers, Sequences, FiniteSets, TLC

-----------------------------------------------------------------------------
(* Characters and small string helpers *)

COMMA == ","
QUOTE == "\""
CR == "\r"
LF == "\n"
SPACE == " "

\* The index of the first occurrence of c in s, 0 if there is none.
IndexOf(s, c) ==
  IF \E i \in 1..Len(s) : s[i] = c
  THEN CHOOSE i \in 1..Len(s) : s[i] = c /\ \A j \in 1..(i-1) : s[j] # c
  ELSE 0

Contains(s, c) == \E i \in 1..Len(s) : s[i] = c

Prefix(s, k) == SubSeq(s, 1, k)

Suffix(s, k) == SubSeq(s, k, Len(s))

\* s contains a carriage return immediately followed by a line feed
HasCRLF(s) == \E i \in 1..(Len(s)-1) : s[i] = CR /\ s[i+1] = LF

RECURSIVE Concat(_)
Concat(ss) == IF ss = <<>> THEN <<>> ELSE Head(ss) \o Concat(Tail(ss))

\* All orders in which the elements of a finite set can be enumerated.
RECURSIVE Orders(_)
Orders(S) ==
  IF S = {} THEN {<<>>}
  ELSE UNION {{<<x>> \o o : o \in Orders(S \ {x})} : x \in S}

-----------------------------------------------------------------------------
(* encoding/csv Writer, as used by SaveMultiple and rewriteFile            *)
(* (Comma = ',', UseCRLF = false)                                          *)

\* csv.Writer.fieldNeedsQuotes
fieldNeedsQuotes(field) ==
  /\ field # <<>>
  /\ \/ field = <<"\\", ".">>
     \/ \E i \in 1..Len(field) : field[i] \in {LF, CR, QUOTE, COMMA}
     \/ field[1] \in {SPACE, "\t"}

\* csvEscape writing a quote as it is
csvEscape_NoDoubling(field) == field

\* the body of a quoted field: a quote is doubled, \r and \n are kept
RECURSIVE csvEscape(_)
csvEscape(field) ==
  IF field = <<>> THEN <<>>
  ELSE (IF Head(field) = QUOTE THEN <<QUOTE, QUOTE>> ELSE <<Head(field)>>)
       \o csvEscape(Tail(field))

csvWriteField(field) ==
  IF fieldNeedsQuotes(field) THEN <<QUOTE>> \o csvEscape(field) \o <<QUOTE>>
  ELSE field

\* csv.Writer.Write(record): the fields joined by commas, then "\n"
RECURSIVE csvJoin(_)
csvJoin(record) ==
  IF record = <<>> THEN <<>>
  ELSE IF Len(record) = 1 THEN csvWriteField(record[1])
  ELSE csvWriteField(Head(record)) \o <<COMMA>> \o csvJoin(Tail(record))

csvWrite(record) == csvJoin(record) \o <<LF>>

-----------------------------------------------------------------------------
(* encoding/csv Reader (Comma = ',', LazyQuotes = false,                   *)
(* TrimLeadingSpace = false, FieldsPerRecord = 0)                          *)

lengthNL(line) == IF line # <<>> /\ line[Len(line)] = LF THEN 1 ELSE 0

\* Reader.readLine on non-empty data: the line up to and including the
\* first "\n"; "\r\n" is normalised to "\n"; a "\r" right before the end
\* of the file is dropped.
readLine(data) ==
  LET i == IndexOf(data, LF) IN
  IF i = 0
  THEN [line |-> IF data[Len(data)] = CR THEN Prefix(data, Len(data) - 1) ELSE data,
        rest |-> <<>>]
  ELSE [line |-> IF i >= 2 /\ data[i-1] = CR
                 THEN Prefix(data, i - 2) \o <<LF>> ELSE Prefix(data, i),
        rest |-> Suffix(data, i + 1)]

\* Reader.readRecord, the parseField loop. The result is
\* [err, fields, rest]: rest is the data after the record.
RECURSIVE parseField(_, _, _), parseQuoted(_, _, _, _)
parseField(line, rest, fields) ==
  IF line = <<>> \/ line[1] # QUOTE
  THEN \* non-quoted field
       LET i == IndexOf(line, COMMA)
           field == IF i > 0 THEN Prefix(line, i - 1)
                    ELSE Prefix(line, Len(line) - lengthNL(line))
       IN IF Contains(field, QUOTE)
          THEN [err |-> TRUE, fields |-> <<>>, rest |-> rest]    \* ErrBareQuote
          ELSE IF i > 0
          THEN parseField(Suffix(line, i + 1), rest, Append(fields, field))
          ELSE [err |-> FALSE, fields |-> Append(fields, field), rest |-> rest]
  ELSE parseQuoted(Tail(line), rest, fields, <<>>)

parseQuoted(line, rest, fields, acc) ==
  LET i == IndexOf(line, QUOTE) IN
  IF i > 0
  THEN LET acc2 == acc \o Prefix(line, i - 1)
           l2 == Suffix(line, i + 1)
       IN IF l2 # <<>> /\ l2[1] = QUOTE
          THEN parseQuoted(Tail(l2), rest, fields, Append(acc2, QUOTE))
          ELSE IF l2 # <<>> /\ l2[1] = COMMA
          THEN parseField(Tail(l2), rest, Append(fields, acc2))
          ELSE IF lengthNL(l2) = Len(l2)
          THEN [err |-> FALSE, fields |-> Append(fields, acc2), rest |-> rest]
          ELSE [err |-> TRUE, fields |-> <<>>, rest |-> rest]    \* ErrQuote
  ELSE IF line # <<>> /\ rest # <<>>
  THEN \* the field goes on on the next line
       LET nl == readLine(rest) IN parseQuoted(nl.line, nl.rest, fields, acc \o line)
  ELSE [err |-> TRUE, fields |-> <<>>, rest |-> rest]            \* ErrQuote at EOF

\* Reader.readRecord repeated to the end of the data, empty lines skipped,
\* stopping at the first quoting error: [err, records].
RECURSIVE parseAll(_, _)
parseAll(data, records) ==
  IF data = <<>> THEN [err |-> FALSE, records |-> records]
  ELSE LET nl == readLine(data) IN
       IF Len(nl.line) = lengthNL(nl.line) THEN parseAll(nl.rest, records)
       ELSE LET r == parseField(nl.line, nl.rest, <<>>) IN
            IF r.err THEN [err |-> TRUE, records |-> records]
            ELSE parseAll(r.rest, Append(records, r.fields))

\* Reader.ReadAll: FieldsPerRecord = 0 makes every record have as many
\* fields as the first one (ErrFieldCount otherwise); on an error no record
\* is returned.
ReadAll(data) ==
  LET p == parseAll(data, <<>>) IN
  IF p.err \/ \E i \in 1..Len(p.records) : Len(p.records[i]) # Len(p.records[1])
  THEN [err |-> TRUE, records |-> <<>>]
  ELSE [err |-> FALSE, records |-> p.records]

-----------------------------------------------------------------------------
(* Package storage: the ledger *)

VARIABLES
  complaintFile,   \* the content of complaints.csv (<<>>: absent or empty)
  seen,            \* Storage.seen: the set of complaint ids mapped to true
  messageIDs,      \* Storage.messageIDs
  apiIDs,          \* Storage.apiIDs
  consumerNames    \* Storage.consumerNames

VARIABLES
  ioFaulty,        \* environment: file operations can fail in this run
  faults,          \* file operations that failed so far
  calls,           \* ledger calls made by the callers so far
  ret,             \* the last ledger call: [op, arg, had, removed, err]
  prev,            \* the ledger call before it
  pre,             \* the ledger (file and maps) as the last call found it
  rmHist           \* per id, RemoveIfExists results since the id was last put

VARIABLES
  portal,          \* environment: the complaint numbers the portal lists
  pc,              \* main goroutine: "idle", "scrape", "pool" or "sweep"
  jobs,            \* WorkerPool.jobs: the Links submitted and not yet taken
  busy,            \* per worker, the Link it is processing (NoJob: none)
  results,         \* WorkerPool.results: the ProcessResults not yet collected
  activeIDs,       \* FetchAll's allActiveComplaintIDs
  toSweep,         \* markResolvedComplaints: stored ids it has still to visit
  chat,            \* handleMessage: the complaint it resolved on the portal
                   \* and has still to edit and remove (<<>>: none)
  msgSeq           \* environment: the message_id Telegram gives next

VARIABLES
  notified,        \* per id, notifications delivered to the chat
  unsaved,         \* per id, notifications left without a record in the maps
  issued,          \* per id, the message ids its sends returned
  unlisted,        \* ids the portal stopped listing at some time
  changes,         \* changes of the portal's listing
  cyc,             \* the running cycle: what its scrape found and what was
                   \* done during it
  cycles,          \* scrape cycles started
  restarts         \* process restarts

VARIABLES
  mainPc,          \* main: "initial" (the initial fetch), "ticker" (the
                   \* select of the refresh loop), "attempt", "relogin",
                   \* "restart" (inside fetchWithRetry), "fatal" (log.Fatal
                   \* ended the process) or "stopped" (shutdown signal)
  maxRetries,      \* cfg.MaxFetchRetries
  attempt,         \* fetchWithRetry: attempt
  lastErr,         \* fetchWithRetry: lastErr ("nil": none)
  lastFetchStatus, \* Monitor.lastFetchStatus
  fetchErr,        \* main: what the last fetchWithRetry returned ("none":
                   \* not called yet)
  events,          \* what the running fetchWithRetry (or the initial fetch)
                   \* has done so far, in order
  signalled,       \* shutdownCtx is done: SIGINT or SIGTERM has arrived
                   \* since signal.NotifyContext
  startup          \* main's login at startup: [max: cfg.MaxLoginRetries,
                   \* attempt, loginErr, logins: what the Login calls
                   \* returned, in order]

supVars == <<mainPc, maxRetries, attempt, lastErr, lastFetchStatus, fetchErr, events,
             signalled, startup>>

VARIABLES
  perPage,         \* environment: the rows the dashboard shows on a page
  maxPages,        \* cfg.MaxPages
  currentPage,     \* FetchAll: currentPage
  scraped,         \* the running (or last) FetchAll: per scrapePage that
                   \* returned its rows, [page, ids, new]
  fetchRet         \* what the last FetchAll returned, [ids, err], and the
                   \* step that failed in it, [step, page, loginForm]

fetchVars == <<perPage, maxPages, currentPage, scraped, fetchRet>>

VARIABLE
  sweepLog         \* the running markResolvedComplaints: the ids whose
                   \* message it edited, whose edit failed, and the ids it
                   \* passed over for want of a message id

VARIABLES
  complaints,      \* processComplaintsConcurrently: the Links it was given
  toSubmit,        \* the submitting goroutine: the Links it has still to Submit
  submitPc,        \* the submitting goroutine: "submit" (its loop, then
                   \* close(p.jobs)), "wait" (wg.Wait in Close) or "done"
  jobsClosed,      \* WorkerPool.jobs is closed
  resultsClosed,   \* WorkerPool.results is closed
  workerPc,        \* per worker, Worker.start: "recv" (at its range over
                   \* jobs), "process", "send" (at w.results <- result),
                   \* "exited", or "panicked" (a send on a closed channel)
  sending,         \* per worker, the ProcessResult it has to send
  wg,              \* WorkerPool.wg: the workers that have not called Done
  collected,       \* the collector: the ProcessResults its range received
  collectPc        \* the collector: "range" or "done"

poolVars == <<complaints, toSubmit, submitPc, jobsClosed, resultsClosed, workerPc,
              sending, wg, collected, collectPc>>

VARIABLES
  pendingResolutions, \* Client.pendingResolutions: per user id, the
                      \* PendingResolution [ComplaintNumber, MessageID]
  handling            \* the running (or last) handleMessage: its position
                      \* ("idle", "call": in ResolveComplaint, "edit": the
                      \* call has succeeded, "done"), the user and text of
                      \* its message, the entry it popped, what the ledger
                      \* held for the complaint, its ResolveComplaint calls
                      \* and what it has done

VARIABLES
  members,            \* environment: the ids of the users who press
                      \* buttons and send texts in the chat
  succeeded,          \* history: per complaint, the ResolveComplaint calls of
                      \* handleMessage that returned nil (counted up to 2)
  press               \* the running (or last) handleCallbackQuery: its
                      \* position ("idle", "store": the message id is looked
                      \* up, "done"), the user and the complaint of the
                      \* button, the entry the user had and whether the
                      \* ledger held the complaint when c.mu was taken (or
                      \* the handler returned before), whether a prompt was
                      \* deleted, and the answer to the callback query

convVars == <<members, pendingResolutions, handling, press, succeeded>>

VARIABLES
  poller,             \* Client.HandleUpdates: its position ("poll": at
                      \* its select, "range": in the loop over updates,
                      \* "sleep": the five seconds after a failed
                      \* getUpdates, "stopped"), offset, the updates it
                      \* ranges over, the offset its last getUpdates
                      \* passed (-1: none yet), the polls that have
                      \* failed, and whether its ctx is done
  server,             \* environment, the Bot API: the updates it holds
                      \* (not yet confirmed) and the id of the next one
  dispatched          \* the updates the loop of HandleUpdates has been
                      \* through, [UpdateID, kind], in order

updVars == <<poller, server, dispatched>>

VARIABLES
  storage,            \* ComplaintStorage: mu (the goroutine that holds
                      \* it, 0: none), seen, and for the record the ids
                      \* the file held, the ids MarkAsSeen was called
                      \* with and the ids it has returned for
  gor,                \* per goroutine of the callers: its position ("next":
                      \* between calls or waiting for cs.mu, "locked":
                      \* in a call, "exited"), the call it is in, the
                      \* calls it has left, the ids MarkAsSeen had
                      \* returned for when it got the mutex, and what
                      \* its IsNew calls returned
  done                \* the receives main has made from the done channel

stoVars == <<storage, gor, done>>

VARIABLES
  holder,             \* ContextHolder: ctx and cancel (0: nil), each the
                      \* number of a browser context
  rw,                 \* ContextHolder.mu: the caller that holds the write
                      \* lock (0: none) and the callers that hold read locks
  callers,            \* per caller of the holder: its position, its call,
                      \* the context it passes or got
  sessions            \* the browser contexts: how many were created, those
                      \* installed in the holder (in order), those cancelled

holderVars == <<holder, rw, callers, sessions>>

\* the long-running parts beside the supervisor and the handlers
runVars == <<updVars, stoVars, holderVars>>

\* the variables of the parts that have specifications of their own
ownVars == <<supVars, fetchVars, poolVars, convVars, runVars>>

partVars == <<ownVars, sweepLog>>

ledgerVars == <<complaintFile, seen, messageIDs, apiIDs, consumerNames>>

sysVars == <<portal, pc, jobs, busy, results, activeIDs, toSweep, chat, msgSeq>>

histVars == <<notified, unsaved, issued, unlisted, changes, cyc, cycles, restarts>>

callVars == <<ioFaulty, faults, calls, ret, prev, pre, rmHist>>

\* Go maps as functions
EmptyMap == [x \in {} |-> <<>>]

MapSet(m, key, v) == [x \in (DOMAIN m) \cup {key} |-> IF x = key THEN v ELSE m[x]]

MapDel(m, key) == [x \in (DOMAIN m) \ {key} |-> m[x]]

\* m[key] of Go: the zero value "" when the key is absent
MapGet(m, key) == IF key \in DOMAIN m THEN m[key] ELSE <<>>

\* storage.Record
Record(c, m, a, n) == [ComplaintID |-> c, MessageID |-> m, APIID |-> a, ConsumerName |-> n]

\* The maps of a Storage as one value
Index(s, m, a, c) == [seen |-> s, messageIDs |-> m, apiIDs |-> a, consumerNames |-> c]

EmptyIndex == Index({}, EmptyMap, EmptyMap, EmptyMap)

CurrentIndex == Index(seen, messageIDs, apiIDs, consumerNames)

\* The first fields that make loadFromFile take a first row for a header
HeaderNames ==
  { <<"C","o","m","p","l","a","i","n","t","I","D">>,
    <<"c","o","m","p","l","a","i","n","t","_","i","d">> }

\* loadFromFile, the loop over the records read
RECURSIVE loadRecords(_, _, _)
loadRecords(idx, records, i) ==
  IF i > Len(records) THEN idx
  ELSE LET record == records[i] IN
       IF i = 1 /\ Len(record) > 0 /\ record[1] \in HeaderNames
       THEN loadRecords(idx, records, i + 1)
       ELSE IF Len(record) >= 1
       THEN loadRecords(
              Index(idx.seen \cup {record[1]},
                    IF Len(record) >= 2 THEN MapSet(idx.messageIDs, record[1], record[2])
                    ELSE idx.messageIDs,
                    IF Len(record) >= 3 THEN MapSet(idx.apiIDs, record[1], record[3])
                    ELSE idx.apiIDs,
                    IF Len(record) >= 4 THEN MapSet(idx.consumerNames, record[1], record[4])
                    ELSE idx.consumerNames),
              records, i + 1)
       ELSE loadRecords(idx, records, i + 1)

\* loadFromFile reading nothing
loadFromFile_Empty(data) == EmptyIndex

\* loadFromFile on empty maps: the maps New() returns for a file content.
\* A missing file and a ReadAll error both leave the maps empty.
loadFromFile(data) ==
  LET r == ReadAll(data) IN
  IF r.err THEN EmptyIndex ELSE loadRecords(EmptyIndex, r.records, 1)

\* IsNew / Exists
IsNew(complaintID) == complaintID \notin seen

Exists(complaintID) == complaintID \in seen

GetMessageID(complaintID) == MapGet(messageIDs, complaintID)

GetAPIID(complaintID) == MapGet(apiIDs, complaintID)

GetConsumerName(complaintID) == MapGet(consumerNames, complaintID)

\* The outcome of writing bytes to the file: all of them, or an error after
\* n of them reached the file (n = -1: the file could not be opened).
\* bufio.Writer.Flush hands the buffer to File.Write, which stops at the
\* first error with a prefix written.
OkOutcome(bytes) == [ok |-> TRUE, n |-> Len(bytes)]

WriteOutcomes(bytes) ==
  {OkOutcome(bytes)} \cup
  (IF ioFaulty THEN {[ok |-> FALSE, n |-> j] : j \in (-1)..(Len(bytes) - 1)} ELSE {})

\* The rows SaveMultiple writes for a batch
RECURSIVE batchBytes(_)
batchBytes(records) ==
  IF records = <<>> THEN <<>>
  ELSE LET r == Head(records) IN
       csvWrite(<<r.ComplaintID, r.MessageID, r.APIID, r.ConsumerName>>)
       \o batchBytes(Tail(records))

\* SaveMultiple, the loop that updates the maps
RECURSIVE indexRecords(_, _)
indexRecords(idx, records) ==
  IF records = <<>> THEN idx
  ELSE LET r == Head(records) IN
       indexRecords(Index(idx.seen \cup {r.ComplaintID},
                          MapSet(idx.messageIDs, r.ComplaintID, r.MessageID),
                          MapSet(idx.apiIDs, r.ComplaintID, r.APIID),
                          MapSet(idx.consumerNames, r.ComplaintID, r.ConsumerName)),
                    Tail(records))

SetIndexInit ==
  /\ seen = {}
  /\ messageIDs = EmptyMap
  /\ apiIDs = EmptyMap
  /\ consumerNames = EmptyMap

SetIndex(idx) ==
  /\ seen' = idx.seen
  /\ messageIDs' = idx.messageIDs
  /\ apiIDs' = idx.apiIDs
  /\ consumerNames' = idx.consumerNames

\* SaveMultiple(records) with the outcome o of its append to the file:
\* the rows are appended (O_APPEND), and the maps are updated only when the
\* writes and both flushes succeeded.
SaveMultiple(records, o) ==
  LET bytes == batchBytes(records) IN
  /\ complaintFile' = complaintFile \o (IF o.n > 0 THEN Prefix(bytes, o.n) ELSE <<>>)
  /\ IF o.ok THEN SetIndex(indexRecords(CurrentIndex, records))
     ELSE UNCHANGED <<seen, messageIDs, apiIDs, consumerNames>>

\* rewriteBytes writing the two columns of the older file format
RECURSIVE rewriteBytes_TwoColumns(_, _)
rewriteBytes_TwoColumns(idx, order) ==
  IF order = <<>> THEN <<>>
  ELSE csvWrite(<<Head(order), MapGet(idx.messageIDs, Head(order))>>)
       \o rewriteBytes_TwoColumns(idx, Tail(order))

\* The rows rewriteFile writes for the maps idx, ranging over idx.seen in
\* the order given (Go ranges over a map in an unspecified order).
RECURSIVE rewriteBytes(_, _)
rewriteBytes(idx, order) ==
  IF order = <<>> THEN <<>>
  ELSE LET id == Head(order) IN
       csvWrite(<<id, MapGet(idx.messageIDs, id), MapGet(idx.apiIDs, id),
                  MapGet(idx.consumerNames, id)>>)
       \o rewriteBytes(idx, Tail(order))

\* rewriteFile on the maps idx: O_TRUNC empties the file when the open
\* succeeds, then the rows are written.
rewriteFile(idx, order, o) ==
  complaintFile' = IF o.n < 0 THEN complaintFile
                   ELSE Prefix(rewriteBytes(idx, order), o.n)

\* Deleted leaving the id in seen
Deleted_KeepsSeen(complaintID) ==
  Index(seen, MapDel(messageIDs, complaintID),
        MapDel(apiIDs, complaintID), MapDel(consumerNames, complaintID))

\* the maps without complaintID
Deleted(complaintID) ==
  Index(seen \ {complaintID}, MapDel(messageIDs, complaintID),
        MapDel(apiIDs, complaintID), MapDel(consumerNames, complaintID))

\* Remove(complaintID): the maps first, then the rewrite of the file
Remove(complaintID, order, o) ==
  /\ SetIndex(Deleted(complaintID))
  /\ rewriteFile(Deleted(complaintID), order, o)

\* RemoveIfExists without its existence check
RemoveIfExists_NoCheck(complaintID, order, o, removed) ==
  /\ removed = TRUE
  /\ SetIndex(Deleted(complaintID))
  /\ rewriteFile(Deleted(complaintID), order, o)

\* RemoveIfExists(complaintID); removed is its first result
RemoveIfExists(complaintID, order, o, removed) ==
  IF ~Exists(complaintID)
  THEN /\ removed = FALSE
       /\ o.ok
       /\ UNCHANGED ledgerVars
  ELSE /\ removed = TRUE
       /\ SetIndex(Deleted(complaintID))
       /\ rewriteFile(Deleted(complaintID), order, o)

\* The outcomes a rewrite after deleting complaintID can have
RewriteChoices(complaintID) ==
  LET idx == Deleted(complaintID) IN
  {[order |-> ord, o |-> out] :
     ord \in Orders(idx.seen),
     out \in UNION {WriteOutcomes(rewriteBytes(idx, ord2)) : ord2 \in Orders(idx.seen)}}

-----------------------------------------------------------------------------
(* Package complaint: a scrape cycle, its worker pool and the batch save;  *)
(* the sweep of main.go and the chat resolution of package telegram        *)

MaxCycles == 2
MaxEvents == 1
MaxSends == 3
WorkerPoolSize == 2

\* the complaint numbers of the pipeline's runs
SysIds == {<<"1">>, <<"2">>}

\* the id in openModelData(id) of a complaint's row
ApiOf(c) == IF c = <<"1">> THEN <<"5">> ELSE <<"6">>

Link(c) == [ComplaintNumber |-> c, APIID |-> ApiOf(c)]

NoJob == [ComplaintNumber |-> <<>>, APIID |-> <<>>]

Workers == 1..WorkerPoolSize

Unknown == <<"U", "n", "k", "n", "o", "w", "n">>

\* processComplaint: consumerName from the complainant_name of the detail
\* the portal's API returns, which for the second complaint has none
consumerName(c) == IF c = <<"1">> THEN <<"n">> ELSE Unknown

\* fmt.Sprintf("%.0f", msgID) for a message_id, a positive integer
RECURSIVE FormatMessageID(_)
FormatMessageID(n) ==
  LET d == <<"0", "1", "2", "3", "4", "5", "6", "7", "8", "9">>[(n % 10) + 1] IN
  IF n < 10 THEN <<d>> ELSE FormatMessageID(n \div 10) \o <<d>>

FirstMessageID == 9

ProcessResult(c, m, n, e) == [ComplaintID |-> c, MessageID |-> m, ConsumerName |-> n, Error |-> e]

\* the rows of #dataTable for a listing: the listed complaints in any
\* order, a row possibly shown twice
PageRows(listed) ==
  {[i \in DOMAIN ord |-> Link(ord[i])] : ord \in Orders(listed)} \cup
  {[i \in 1..(Len(ord) + 1) |-> Link(ord[IF i > Len(ord) THEN 1 ELSE i])] :
     ord \in Orders(listed) \ {<<>>}}

\* scrapePage: allIDsOnPage
RECURSIVE allIDsOnPage(_)
allIDsOnPage(complaintLinks) ==
  IF complaintLinks = <<>> THEN <<>>
  ELSE <<Head(complaintLinks).ComplaintNumber>> \o allIDsOnPage(Tail(complaintLinks))

\* newComplaints without the IsNew filter
RECURSIVE newComplaints_NoFilter(_, _)
newComplaints_NoFilter(complaintLinks, seenOnPage) ==
  IF complaintLinks = <<>> THEN <<>>
  ELSE LET complaint == Head(complaintLinks) IN
       IF complaint.ComplaintNumber \in seenOnPage
       THEN newComplaints_NoFilter(Tail(complaintLinks), seenOnPage)
       ELSE <<complaint>> \o
            newComplaints_NoFilter(Tail(complaintLinks),
                                   seenOnPage \cup {complaint.ComplaintNumber})

\* scrapePage: newComplaints, the rows that are not duplicates on the page
\* and whose complaint IsNew
RECURSIVE newComplaints(_, _)
newComplaints(complaintLinks, seenOnPage) ==
  IF complaintLinks = <<>> THEN <<>>
  ELSE LET complaint == Head(complaintLinks) IN
       IF complaint.ComplaintNumber \in seenOnPage
       THEN newComplaints(Tail(complaintLinks), seenOnPage)
       ELSE (IF IsNew(complaint.ComplaintNumber) THEN <<complaint>> ELSE <<>>) \o
            newComplaints(Tail(complaintLinks),
                          seenOnPage \cup {complaint.ComplaintNumber})

SeqSet(q) == {q[i] : i \in DOMAIN q}

\* recordsToSave taking every result
RECURSIVE recordsToSave_Unchecked(_)
recordsToSave_Unchecked(rs) ==
  IF rs = <<>> THEN <<>>
  ELSE LET result == Head(rs) IN
       <<Record(result.ComplaintID, result.MessageID,
                ApiOf(result.ComplaintID), result.ConsumerName)>>
       \o recordsToSave_Unchecked(Tail(rs))

\* processComplaintsConcurrently: recordsToSave from the results collected
RECURSIVE recordsToSave(_)
recordsToSave(rs) ==
  IF rs = <<>> THEN <<>>
  ELSE LET result == Head(rs) IN
       (IF ~result.Error /\ result.MessageID # <<>>
        THEN <<Record(result.ComplaintID, result.MessageID,
                      ApiOf(result.ComplaintID), result.ConsumerName)>>
        ELSE <<>>) \o recordsToSave(Tail(rs))

NoCycle ==
  [allKnown |-> FALSE, sends |-> 0, saves |-> 0, removes |-> 0,
   file |-> <<>>, idx |-> EmptyIndex]

InitPipeline ==
  /\ pc = "idle"
  /\ jobs = <<>>
  /\ busy = [w \in Workers |-> NoJob]
  /\ results = <<>>
  /\ activeIDs = <<>>
  /\ toSweep = {}
  /\ chat = <<>>
  /\ msgSeq = FirstMessageID
  /\ notified = [c \in SysIds |-> 0]
  /\ unsaved = [c \in SysIds |-> 0]
  /\ issued = [c \in SysIds |-> {}]
  /\ unlisted = {}
  /\ changes = 0
  /\ cyc = NoCycle
  /\ cycles = 0
  /\ restarts = 0

-----------------------------------------------------------------------------
(* The parts with specifications of their own, as main constructs them    *)

\* LoadConfig: MAX_FETCH_RETRIES when the environment does not set it
DefaultMaxFetchRetries == 2

\* main before the initial fetch, the configuration holding m for
\* MaxFetchRetries; NewMonitor's lastFetchStatus
\* LoadConfig: MAX_LOGIN_RETRIES when the environment does not set it
DefaultMaxLoginRetries == 3

\* main's login loop left by its break after the first Login
StartupOver ==
  [max |-> DefaultMaxLoginRetries, attempt |-> 1, loginErr |-> "nil", logins |-> <<"nil">>]

InitSupervisor(m) ==
  /\ mainPc = "initial"
  /\ startup = StartupOver
  /\ maxRetries = m
  /\ attempt = 0
  /\ lastErr = "nil"
  /\ lastFetchStatus = "not started"
  /\ fetchErr = "none"
  /\ events = <<>>
  /\ signalled = FALSE

\* LoadConfig: MAX_PAGES when the environment does not set it
DefaultMaxPages == 5

NoFailure == [step |-> "none", page |-> 0, loginForm |-> FALSE]

NoSweep == [edited |-> {}, failed |-> {}, skipped |-> {}]

\* no FetchAll called yet, the configuration holding m for MaxPages and the
\* dashboard showing n rows a page
InitFetcher(m, n) ==
  /\ perPage = n
  /\ maxPages = m
  /\ currentPage = 1
  /\ scraped = <<>>
  /\ fetchRet = [ids |-> <<>>, err |-> "none", failure |-> NoFailure]

NoResult == [ComplaintID |-> <<>>, MessageID |-> <<>>, ConsumerName |-> <<>>, Error |-> FALSE]

\* processComplaintsConcurrently(cs) after NewWorkerPool and the start of
\* the submitting goroutine
InitPool(cs) ==
  /\ complaints = cs
  /\ toSubmit = cs
  /\ submitPc = "submit"
  /\ jobsClosed = FALSE
  /\ resultsClosed = FALSE
  /\ workerPc = [w \in Workers |-> "recv"]
  /\ sending = [w \in Workers |-> NoResult]
  /\ wg = WorkerPoolSize
  /\ collected = <<>>
  /\ collectPc = "range"

NoPending == [ComplaintNumber |-> <<>>, MessageID |-> <<>>, PromptMessageID |-> 0]

NoPress ==
  [pc |-> "idle", user |-> 0, complaintNumber |-> <<>>, messageID |-> <<>>,
   before |-> NoPending, inLedger |-> FALSE, deleted |-> FALSE, answer |-> ""]

NoHandling ==
  [pc |-> "idle", user |-> 0, text |-> <<>>, had |-> FALSE, pending |-> NoPending,
   exists |-> FALSE, apiID |-> <<>>, calls |-> <<>>, log |-> <<>>]

\* NewClient: no resolution is pending
InitChat(us) ==
  /\ members = us
  /\ pendingResolutions = EmptyMap
  /\ handling = NoHandling
  /\ press = NoPress
  /\ succeeded = [c \in SysIds |-> 0]

\* the update_id of the first update the bot receives
FirstUpdateID == 1

\* HandleUpdates as main starts it: offset := 0, nothing sent to the bot yet
InitUpdates ==
  /\ poller = [pc |-> "poll", offset |-> 0, updates |-> <<>>, passed |-> -1, failed |-> 0,
               ctxDone |-> FALSE]
  /\ server = [held |-> <<>>, next |-> FirstUpdateID]
  /\ dispatched = <<>>

\* NewComplaintStorage with the ids loadFromFile found, and the goroutines
\* that call it with the calls they are to make
InitComplaintStorage(ids, todo) ==
  /\ storage = [mu |-> 0, seen |-> ids, loaded |-> ids, called |-> {}, returned |-> {}]
  /\ gor = [g \in DOMAIN todo |->
              [pc |-> "next", op |-> "none", id |-> "", todo |-> todo[g], before |-> {},
               got |-> <<>>]]
  /\ done = 0

\* NewContextHolder: the first browser context and its cancel function
InitHolder(cl) ==
  /\ holder = [ctx |-> 1, cancel |-> 1]
  /\ rw = [writer |-> 0, readers |-> {}]
  /\ callers = [c \in cl |-> [pc |-> "idle", op |-> "none", ctx |-> 0]]
  /\ sessions = [created |-> 1, installed |-> <<1>>, cancelled |-> {}]

\* with no update polled, no goroutine at the storage and no caller at the
\* holder
InitRun ==
  /\ InitUpdates
  /\ InitComplaintStorage({}, <<>>)
  /\ InitHolder({})

InitParts ==
  /\ InitSupervisor(DefaultMaxFetchRetries)
  /\ InitFetcher(DefaultMaxPages, 2)
  /\ sweepLog = NoSweep
  /\ InitPool(<<>>)
  /\ InitChat({})
  /\ InitRun

-----------------------------------------------------------------------------
(* The callers of the ledger: any sequence of SaveMultiple, Remove,        *)
(* RemoveIfExists calls and process restarts (New)                         *)

MaxCalls == 3
MaxFaults == 1
MaxBatch == 2
MaxSaves == 2
MaxRows == 3

\* Complaint numbers, message ids, API ids and names as the portal and
\* Telegram give them
Ids == {<<"1">>, <<"2">>, <<"3">>}

MsgIds == {<<"7">>}

ApiIds == {<<"5">>}

Names == {<<"n">>}

Records == {Record(c, m, a, n) : c \in Ids \ {<<"3">>}, m \in MsgIds, a \in ApiIds, n \in Names}

\* Batches of records with distinct complaint ids
Batches ==
  {b \in UNION {[1..n -> Records] : n \in 1..MaxBatch} :
     \A i, j \in DOMAIN b : i # j => b[i].ComplaintID # b[j].ComplaintID}

\* Strings with everything the CSV encoding treats specially
AnyStrings ==
  { <<>>, <<"1">>, <<"a", COMMA, "b">>, <<QUOTE, "q", QUOTE>>, <<"x", LF, "y">>,
    <<"x", CR, LF, "y">>, <<"z", CR>>, <<SPACE, "s">>,
    <<"C","o","m","p","l","a","i","n","t","I","D">> }

AnyNames == {<<>>, <<QUOTE, "q", QUOTE, COMMA>>}

AnyRecords ==
  {Record(c, m, a, n) : c \in AnyStrings, m \in {<<>>, <<"7">>}, a \in {<<"5">>},
                        n \in AnyNames}

AnyBatches == {<<r>> : r \in AnyRecords}

NoCall == [op |-> "none", arg |-> <<>>, had |-> FALSE, removed |-> FALSE, err |-> FALSE]

Snapshot == [file |-> complaintFile, idx |-> CurrentIndex]

NoHist == [from |-> FALSE, calls |-> 0, trues |-> 0, oks |-> 0]

Inc(n) == IF n < 2 THEN n + 1 ELSE 2

\* a failing outcome spends one of the run's faults
Allowed(o) == o.ok \/ faults < MaxFaults

Called(op, arg, removed, o) ==
  /\ Allowed(o)
  /\ calls' = calls + 1
  /\ faults' = IF o.ok THEN faults ELSE faults + 1
  /\ ret' = [op |-> op, arg |-> arg,
             had |-> (op \in {"remove", "removeIfExists"} /\ arg \in seen),
             removed |-> removed, err |-> ~o.ok]
  /\ prev' = ret
  /\ pre' = Snapshot
  /\ UNCHANGED <<ioFaulty, sysVars, histVars, partVars>>

\* a caller saves a batch
CallSaveMultiple(B) ==
  \E batch \in B : \E o \in WriteOutcomes(batchBytes(batch)) :
    /\ Called("save", batch, FALSE, o)
    /\ SaveMultiple(batch, o)
    /\ rmHist' = [d \in DOMAIN rmHist |->
                    IF o.ok /\ \E i \in DOMAIN batch : batch[i].ComplaintID = d
                    THEN [NoHist EXCEPT !.from = TRUE] ELSE rmHist[d]]

\* a caller removes an id (the sweep)
CallRemove ==
  \E id \in Ids : \E ch \in RewriteChoices(id) :
    /\ Called("remove", id, FALSE, ch.o)
    /\ Remove(id, ch.order, ch.o)
    /\ rmHist' = [rmHist EXCEPT ![id] = NoHist]

\* a caller compare-and-removes an id (the chat handler)
CallRemoveIfExists ==
  \E id \in Ids : \E ch \in RewriteChoices(id) : \E removed \in BOOLEAN :
    /\ Called("removeIfExists", id, removed, ch.o)
    /\ RemoveIfExists(id, ch.order, ch.o, removed)
    /\ rmHist' = [rmHist EXCEPT ![id] =
                    [from |-> @.from, calls |-> Inc(@.calls),
                     trues |-> IF removed THEN Inc(@.trues) ELSE @.trues,
                     oks |-> IF removed /\ ch.o.ok THEN Inc(@.oks) ELSE @.oks]]

\* the process is started again: New() builds the maps from the file
Reload ==
  /\ Called("load", <<>>, FALSE, [ok |-> TRUE, n |-> 0])
  /\ SetIndex(loadFromFile(complaintFile))
  /\ UNCHANGED complaintFile
  /\ rmHist' = [d \in DOMAIN rmHist |->
                  [NoHist EXCEPT !.from = (d \in loadFromFile(complaintFile).seen)]]

InitCalls ==
  /\ faults = 0
  /\ calls = 0
  /\ ret = NoCall
  /\ prev = NoCall
  /\ pre = [file |-> <<>>, idx |-> EmptyIndex]
  /\ rmHist = [d \in Ids |-> NoHist]

InitLedger ==
  /\ SetIndexInit
  /\ InitPipeline
  /\ InitParts
  /\ portal = {}
  /\ faults = 0
  /\ calls = 0
  /\ ret = NoCall
  /\ prev = NoCall
  /\ pre = [file |-> <<>>, idx |-> EmptyIndex]
  /\ rmHist = [d \in Ids |-> NoHist]

-----------------------------------------------------------------------------
(* SpecLedger: the ledger under any sequence of calls, file operations     *)
(* failing at any point                                                    *)

LedgerSave == calls < MaxCalls /\ CallSaveMultiple(Batches)

LedgerRemove == calls < MaxCalls /\ CallRemove

LedgerRemoveIfExists == calls < MaxCalls /\ CallRemoveIfExists

LedgerReload == calls < MaxCalls /\ ret.op # "load" /\ Reload

LedgerInit == InitLedger /\ complaintFile = <<>> /\ ioFaulty = TRUE

LedgerNext == LedgerSave \/ LedgerRemove \/ LedgerRemoveIfExists \/ LedgerReload

vars == <<ledgerVars, callVars, sysVars, histVars, partVars>>

SpecLedger == LedgerInit /\ [][LedgerNext]_vars

(* SpecResave: the calls the program makes on its Storage: the collector   *)
(* saves batches of complaints that IsNew took for new at the scrape, the  *)
(* sweep and the chat handler remove, a restart loads the file; writes can *)
(* fail part-way                                                           *)

\* scrapePage: the batches of complaints for which IsNew is true
NewBatches == {b \in Batches : \A i \in DOMAIN b : IsNew(b[i].ComplaintID)}

ResaveSave == calls < MaxCalls /\ CallSaveMultiple(NewBatches)

ResaveNext == ResaveSave \/ LedgerRemove \/ LedgerRemoveIfExists \/ LedgerReload

SpecResave == LedgerInit /\ [][ResaveNext]_vars

(* SpecRoundTrip: records of any strings saved one at a time and loaded    *)
(* into a fresh Storage, the file operations succeeding                    *)

RoundTripSave == calls < MaxSaves /\ CallSaveMultiple(AnyBatches)

RoundTripReload == ret.op = "save" /\ Reload

RoundTripInit == InitLedger /\ complaintFile = <<>> /\ ioFaulty = FALSE

RoundTripNext == RoundTripSave \/ RoundTripReload

SpecRoundTrip == RoundTripInit /\ [][RoundTripNext]_vars

(* SpecLoad: New() on a file of well-formed and malformed rows             *)

\* the lines a ledger file found at startup can hold: rows of four fields,
\* a row of two fields (the older two-column format), a row of five
\* fields and a row with a stray quote
LoadLines ==
  {csvWrite(<<c, <<"7">>, <<"5">>, <<"n">>>>) : c \in Ids} \cup
  { csvWrite(<<<<"4">>, <<"7">>>>),
    csvWrite(<<<<"4">>, <<"7">>, <<"5">>, <<"n">>, <<"z">>>>),
    <<"4", QUOTE, "x", COMMA, "7", COMMA, "5", COMMA, "n", LF>> }

LoadFiles == {Concat(ls) : ls \in UNION {[1..n -> LoadLines] : n \in 0..MaxRows}}

LoadInit ==
  /\ InitLedger
  /\ ioFaulty = FALSE
  /\ complaintFile \in LoadFiles

LoadNext == ret.op = "none" /\ Reload

SpecLoad == LoadInit /\ [][LoadNext]_vars

-----------------------------------------------------------------------------
(* The pipeline's steps *)

Bump(f, c) == [f EXCEPT ![c] = @ + 1]

\* the ids of the results that report a delivered notification
Delivered(rs) == {r.ComplaintID : r \in {x \in SeqSet(rs) : ~x.Error}}

\* a notification loses its record when Remove or RemoveIfExists takes
\* the id out of the maps
Dropped(newSeen) ==
  [c \in SysIds |-> IF c \in seen /\ c \notin newSeen THEN unsaved[c] + 1 ELSE unsaved[c]]

TotalNotified == notified[<<"1">>] + notified[<<"2">>]

\* the portal lists a complaint, or stops listing one
PortalAdd ==
  /\ restarts + changes < MaxEvents
  /\ \E c \in SysIds \ portal : portal' = portal \cup {c}
  /\ changes' = changes + 1
  /\ UNCHANGED <<partVars, ledgerVars, callVars, pc, jobs, busy, results, activeIDs, toSweep,
                 chat, msgSeq, notified, unsaved, issued, unlisted, cyc, cycles, restarts>>

PortalDrop ==
  /\ restarts + changes < MaxEvents
  /\ \E c \in portal : portal' = portal \ {c} /\ unlisted' = unlisted \cup {c}
  /\ changes' = changes + 1
  /\ UNCHANGED <<partVars, ledgerVars, callVars, pc, jobs, busy, results, activeIDs, toSweep,
                 chat, msgSeq, notified, unsaved, issued, cyc, cycles, restarts>>

\* main: FetchAll begins (the initial fetch, or a tick of the refresh loop)
FetchAllStart ==
  /\ pc = "idle"
  /\ cycles < MaxCycles
  /\ pc' = "scrape"
  /\ activeIDs' = <<>>
  /\ cycles' = cycles + 1
  /\ cyc' = [NoCycle EXCEPT !.file = complaintFile, !.idx = CurrentIndex]
  /\ UNCHANGED <<partVars, ledgerVars, callVars, portal, jobs, busy, results, toSweep, chat,
                 msgSeq, notified, unsaved, issued, unlisted, changes, restarts>>

\* FetchAllReturns with every stored id handed to the sweep
FetchAllReturns_All(ids, stored) ==
  /\ pc' = "sweep"
  /\ toSweep' = stored

\* FetchAll returns the ids to main, which calls markResolvedComplaints:
\* the stored ids that are not among them are the ones its loop acts on
FetchAllReturns(ids, stored) ==
  /\ pc' = "sweep"
  /\ toSweep' = stored \ SeqSet(ids)

\* scrapePage fails: FetchAll leaves its loop and returns what it has
ScrapePageFails ==
  /\ pc = "scrape"
  /\ FetchAllReturns(activeIDs, seen)
  /\ UNCHANGED <<partVars, ledgerVars, callVars, portal, jobs, busy, results, activeIDs, chat,
                 msgSeq, histVars>>

\* scrapePage reads the rows, filters them and submits the new complaints
\* to a new pool (fewer than the jobs channel buffers)
ScrapePage ==
  /\ pc = "scrape"
  /\ \E complaintLinks \in PageRows(portal) :
       LET new == newComplaints(complaintLinks, {}) IN
       /\ activeIDs' = activeIDs \o allIDsOnPage(complaintLinks)
       /\ cyc' = [cyc EXCEPT !.allKnown =
                    complaintLinks # <<>> /\
                    \A i \in DOMAIN complaintLinks : ~IsNew(complaintLinks[i].ComplaintNumber)]
       /\ IF new = <<>>
          THEN FetchAllReturns(activeIDs', seen) /\ UNCHANGED jobs
          ELSE pc' = "pool" /\ jobs' = new /\ UNCHANGED toSweep
  /\ UNCHANGED <<partVars, ledgerVars, callVars, portal, busy, results, chat, msgSeq,
                 notified, unsaved, issued, unlisted, changes, cycles, restarts>>

\* Worker.start: an idle worker takes the next job (the workers being
\* alike, the first idle one stands for any of them)
WorkerTakes ==
  /\ jobs # <<>>
  /\ \E w \in Workers :
       /\ busy[w] = NoJob
       /\ \A v \in 1..(w - 1) : busy[v] # NoJob
       /\ busy' = [busy EXCEPT ![w] = Head(jobs)]
  /\ jobs' = Tail(jobs)
  /\ UNCHANGED <<partVars, ledgerVars, callVars, portal, pc, results, activeIDs, toSweep, chat,
                 msgSeq, histVars>>

\* Worker.processComplaint: the detail fetch fails
WorkerFetchFails ==
  \E w \in Workers :
    /\ busy[w] # NoJob
    /\ results' = Append(results, ProcessResult(busy[w].ComplaintNumber, <<>>, <<>>, TRUE))
    /\ busy' = [busy EXCEPT ![w] = NoJob]
    /\ UNCHANGED <<partVars, ledgerVars, callVars, portal, pc, jobs, activeIDs, toSweep, chat,
                   msgSeq, histVars>>

\* Worker.processComplaint: SendComplaintMessage returns an error, the
\* message delivered to the chat or not
WorkerSendFails ==
  \E w \in Workers : \E delivered \in BOOLEAN :
    LET c == busy[w].ComplaintNumber IN
    /\ busy[w] # NoJob
    /\ delivered => TotalNotified < MaxSends
    /\ results' = Append(results, ProcessResult(c, <<>>, consumerName(c), TRUE))
    /\ busy' = [busy EXCEPT ![w] = NoJob]
    /\ notified' = IF delivered THEN Bump(notified, c) ELSE notified
    /\ unsaved' = IF delivered THEN Bump(unsaved, c) ELSE unsaved
    /\ cyc' = IF delivered THEN [cyc EXCEPT !.sends = @ + 1] ELSE cyc
    /\ UNCHANGED <<partVars, ledgerVars, callVars, portal, pc, jobs, activeIDs, toSweep, chat,
                   msgSeq, issued, unlisted, changes, cycles, restarts>>

\* Worker.processComplaint: the message is sent; Telegram's answer holds
\* a message_id or, hasID being false, none
WorkerSends ==
  \E w \in Workers : \E hasID \in BOOLEAN :
    LET c == busy[w].ComplaintNumber
        messageID == IF hasID THEN FormatMessageID(msgSeq) ELSE <<>> IN
    /\ busy[w] # NoJob
    /\ TotalNotified < MaxSends
    /\ results' = Append(results, ProcessResult(c, messageID, consumerName(c), FALSE))
    /\ busy' = [busy EXCEPT ![w] = NoJob]
    /\ msgSeq' = msgSeq + 1
    /\ notified' = Bump(notified, c)
    /\ issued' = IF hasID THEN [issued EXCEPT ![c] = @ \cup {messageID}] ELSE issued
    /\ cyc' = [cyc EXCEPT !.sends = @ + 1]
    /\ UNCHANGED <<partVars, ledgerVars, callVars, portal, pc, jobs, activeIDs, toSweep, chat,
                   unsaved, unlisted, changes, cycles, restarts>>

\* processComplaintsConcurrently: the workers are done and the results
\* channel is closed; the records are saved in one batch, an error of the
\* save being logged only, and scrapePage and FetchAll return. The save
\* succeeds or fails at the open of the file (a write failing part-way is
\* SpecLedger's matter).
Collect ==
  /\ pc = "pool"
  /\ jobs = <<>>
  /\ \A w \in Workers : busy[w] = NoJob
  /\ LET records == recordsToSave(results) IN
     \E o \in (IF records = <<>> THEN {[ok |-> TRUE, n |-> 0]}
               ELSE {OkOutcome(batchBytes(records)), [ok |-> FALSE, n |-> -1]}) :
       /\ IF records = <<>> THEN UNCHANGED ledgerVars ELSE SaveMultiple(records, o)
       /\ unsaved' =
            [c \in SysIds |->
               IF /\ c \in Delivered(results)
                  /\ ~(o.ok /\ \E i \in DOMAIN records : records[i].ComplaintID = c)
               THEN unsaved[c] + 1 ELSE unsaved[c]]
       /\ cyc' = [cyc EXCEPT !.saves = IF records = <<>> THEN @ ELSE @ + 1]
  /\ results' = <<>>
  /\ FetchAllReturns(activeIDs, seen')
  /\ UNCHANGED <<partVars, callVars, portal, jobs, busy, activeIDs, chat, msgSeq,
                 notified, issued, unlisted, changes, cycles, restarts>>

\* markResolvedComplaints, one turn of its loop for a stored id that is
\* not among the active ones: with a message id, the message is edited
\* and, the edit succeeding, the record removed
SweepStep ==
  /\ pc = "sweep"
  /\ \E complaintID \in toSweep : \E edited \in BOOLEAN :
       /\ toSweep' = toSweep \ {complaintID}
       /\ sweepLog' =
            IF GetMessageID(complaintID) = <<>>
            THEN [sweepLog EXCEPT !.skipped = @ \cup {complaintID}]
            ELSE IF edited THEN [sweepLog EXCEPT !.edited = @ \cup {complaintID}]
            ELSE [sweepLog EXCEPT !.failed = @ \cup {complaintID}]
       /\ IF GetMessageID(complaintID) # <<>> /\ edited
          THEN \E ch \in RewriteChoices(complaintID) :
                 /\ Remove(complaintID, ch.order, ch.o)
                 /\ unsaved' = Dropped(seen')
                 /\ cyc' = [cyc EXCEPT !.removes = @ + 1]
          ELSE UNCHANGED <<ledgerVars, unsaved, cyc>>
  /\ UNCHANGED <<ownVars, callVars, portal, pc, jobs, busy, results, activeIDs, chat, msgSeq,
                 notified, issued, unlisted, changes, cycles, restarts>>

\* markResolvedComplaints returns and main waits for the next tick
SweepDone ==
  /\ pc = "sweep"
  /\ toSweep = {}
  /\ pc' = "idle"
  /\ cyc' = NoCycle
  /\ sweepLog' = NoSweep
  /\ UNCHANGED <<ownVars, ledgerVars, callVars, portal, jobs, busy, results, activeIDs, toSweep,
                 chat, msgSeq, notified, unsaved, issued, unlisted, changes, cycles,
                 restarts>>

\* handleMessage with a resolution note for a complaint of the ledger:
\* ResolveComplaint succeeds and the portal stops listing the complaint
\* (a failing call ends the handler with the state as it was)
handleMessageResolves ==
  /\ chat = <<>>
  /\ \E complaintNumber \in SysIds :
       /\ Exists(complaintNumber)
       /\ GetAPIID(complaintNumber) # <<>>
       /\ chat' = complaintNumber
       /\ portal' = portal \ {complaintNumber}
       /\ unlisted' = unlisted \cup {complaintNumber}
  /\ UNCHANGED <<partVars, ledgerVars, callVars, pc, jobs, busy, results, activeIDs, toSweep,
                 msgSeq, notified, unsaved, issued, changes, cyc, cycles, restarts>>

\* handleMessage returns, having done what evs tells
Handled(evs) ==
  IF handling.pc = "idle" THEN handling
  ELSE [handling EXCEPT !.pc = "done", !.log = @ \o evs]

\* handleMessage after ResolveComplaint: the message is edited and, the
\* edit succeeding, the record removed with RemoveIfExists
handleMessageRemoves ==
  /\ chat # <<>>
  /\ chat' = <<>>
  /\ \E edited \in BOOLEAN :
       IF edited
       THEN \E ch \in RewriteChoices(chat) : \E removed \in BOOLEAN :
              /\ RemoveIfExists(chat, ch.order, ch.o, removed)
              /\ unsaved' = Dropped(seen')
              /\ cyc' = [cyc EXCEPT !.removes = IF removed /\ pc # "idle" THEN @ + 1 ELSE @]
              /\ handling' = Handled(<<"edited", IF removed THEN "removed" ELSE "not removed">>)
       ELSE /\ UNCHANGED <<ledgerVars, unsaved, cyc>>
            /\ handling' = Handled(<<"edit failed">>)
  /\ UNCHANGED <<supVars, fetchVars, poolVars, runVars, members, pendingResolutions, press,
                 succeeded, sweepLog,
                 callVars, portal,
                 pc, jobs, busy, results, activeIDs, toSweep, msgSeq, notified, issued,
                 unlisted, changes, cycles, restarts>>

\* the process stops at any point and is started again: main builds the
\* Storage from the file and everything else anew
Restart ==
  /\ restarts + changes < MaxEvents
  /\ restarts' = restarts + 1
  /\ SetIndex(loadFromFile(complaintFile))
  /\ pc' = "idle"
  /\ jobs' = <<>>
  /\ busy' = [w \in Workers |-> NoJob]
  /\ results' = <<>>
  /\ activeIDs' = <<>>
  /\ toSweep' = {}
  /\ chat' = <<>>
  /\ cyc' = NoCycle
  /\ unsaved' = [c \in SysIds |->
                   IF c \in Delivered(results) THEN unsaved[c] + 1 ELSE unsaved[c]]
  /\ sweepLog' = NoSweep
  /\ UNCHANGED <<ownVars, complaintFile, callVars, portal, msgSeq, notified, issued, unlisted,
                 changes, cycles>>

(* SpecPipeline: scrape cycles, sweeps, chat resolutions and restarts, the *)
(* portal's listing changing; a batch save can fail at the open, the       *)
(* rewrites of the file succeed                                            *)

PipelineInit ==
  /\ SetIndexInit
  /\ complaintFile = <<>>
  /\ ioFaulty = FALSE
  /\ faults = 0
  /\ calls = 0
  /\ ret = NoCall
  /\ prev = NoCall
  /\ pre = [file |-> <<>>, idx |-> EmptyIndex]
  /\ rmHist = [d \in Ids |-> NoHist]
  /\ InitPipeline
  /\ InitParts
  /\ portal = SysIds

PipelineNext ==
  \/ PortalAdd
  \/ PortalDrop
  \/ FetchAllStart
  \/ ScrapePageFails
  \/ ScrapePage
  \/ WorkerTakes
  \/ WorkerFetchFails
  \/ WorkerSendFails
  \/ WorkerSends
  \/ Collect
  \/ SweepStep
  \/ SweepDone
  \/ handleMessageResolves
  \/ handleMessageRemoves
  \/ Restart

SpecPipeline == PipelineInit /\ [][PipelineNext]_vars

-----------------------------------------------------------------------------
(* The supervisor: main's initial fetch and refresh loop, fetchWithRetry   *)
(* taken one attempt at a time. FetchAll is a call that returns nil, a     *)
(* SessionExpiredError or a FetchError (SpecFetch takes it page by page);  *)
(* the chat gateway is configured (tg is not nil).                         *)

MaxRetriesBound == 2

\* the values MAX_FETCH_RETRIES can hold: getEnvInt takes any integer and
\* Validate does not look at it
FetchRetriesValues == -1..MaxRetriesBound

\* the errors FetchAll returns
FetchAllErrors == {"SessionExpired", "Fetch"}

\* everything but the supervisor's variables
restOfSup == <<ledgerVars, callVars, sysVars, histVars, fetchVars, sweepLog, poolVars, convVars,
              runVars>>

\* fetchWithRetry's loop condition with one more turn
inLoop_OneMore(a, m) == a <= m + 1

\* fetchWithRetry: the condition of "for attempt := 0; attempt <= maxRetries"
inLoop(a, m) == a <= m

\* fetchWithRetry on success: the sweep, then the status
onSuccess == <<"sweep", "status:success">>

\* fetchWithRetry after its loop without the alert
allRetriesFailed_NoAlert(ev) == ev \o <<"status:error">>

\* fetchWithRetry after its loop: the status, then SendCriticalAlert (whose
\* error is logged only)
allRetriesFailed(ev) == ev \o <<"status:error", "alert">>

\* fetchWithRetry after the first Login, restarting whatever Login returned
afterLogin_AlwaysRestart(loginErr) == <<"NewContext">>

\* fetchWithRetry after the first Login: continue, or a new browser context
\* put in the holder
afterLogin(loginErr) == IF loginErr = "nil" THEN <<>> ELSE <<"NewContext">>

\* the refresh loop with an error of fetchWithRetry ending the process
afterFetchWithRetry_Fatal(err) == IF err = "nil" THEN "ticker" ELSE "fatal"

\* the refresh loop after fetchWithRetry: the error is logged and the loop
\* goes back to its select
afterFetchWithRetry(err) == "ticker"

\* the ticker fires: fetchWithRetry is called
Tick ==
  /\ mainPc = "ticker"
  /\ mainPc' = "attempt"
  /\ attempt' = 0
  /\ lastErr' = "nil"
  /\ events' = <<>>
  /\ UNCHANGED <<startup, maxRetries, lastFetchStatus, fetchErr, signalled, restOfSup>>

\* environment: SIGINT or SIGTERM arrives after signal.NotifyContext, that
\* is once the initial fetch is over; shutdownCtx is done from then on,
\* wherever main is
Signal ==
  /\ mainPc \in {"ticker", "attempt", "relogin", "restart"}
  /\ ~signalled
  /\ signalled' = TRUE
  /\ UNCHANGED <<mainPc, startup, maxRetries, attempt, lastErr, lastFetchStatus, fetchErr, events,
                 restOfSup>>

\* the select of the refresh loop takes shutdownCtx.Done(): ctxHolder.Cancel
\* and return (when the ticker has fired too, the select takes either)
Shutdown ==
  /\ mainPc = "ticker"
  /\ signalled
  /\ mainPc' = "stopped"
  /\ UNCHANGED <<startup, maxRetries, attempt, lastErr, lastFetchStatus, fetchErr, events, signalled,
                 restOfSup>>

\* main: the initial FetchAll; its error ends the process with log.Fatal
InitialFetch ==
  /\ mainPc = "initial"
  /\ \/ /\ events' = <<"FetchAll:nil">> \o onSuccess
        /\ lastFetchStatus' = "success"
        /\ mainPc' = "ticker"
     \/ /\ \E err \in FetchAllErrors : events' = <<"FetchAll:" \o err>>
        /\ mainPc' = "fatal"
        /\ UNCHANGED lastFetchStatus
  /\ UNCHANGED <<startup, maxRetries, attempt, lastErr, fetchErr, signalled, restOfSup>>

\* fetchWithRetry: FetchAll returns nil
AttemptSucceeds ==
  /\ mainPc = "attempt"
  /\ inLoop(attempt, maxRetries)
  /\ events' = events \o <<"FetchAll:nil">> \o onSuccess
  /\ lastFetchStatus' = "success"
  /\ fetchErr' = "nil"
  /\ mainPc' = afterFetchWithRetry("nil")
  /\ UNCHANGED <<startup, maxRetries, attempt, lastErr, signalled, restOfSup>>

\* fetchWithRetry: FetchAll returns a SessionExpiredError
AttemptSessionExpired ==
  /\ mainPc = "attempt"
  /\ inLoop(attempt, maxRetries)
  /\ events' = Append(events, "FetchAll:SessionExpired")
  /\ lastErr' = "SessionExpired"
  /\ mainPc' = "relogin"
  /\ UNCHANGED <<startup, maxRetries, attempt, lastFetchStatus, fetchErr, signalled, restOfSup>>

\* fetchWithRetry: FetchAll returns another error; five seconds later the
\* next turn of the loop
AttemptFetchError ==
  /\ mainPc = "attempt"
  /\ inLoop(attempt, maxRetries)
  /\ events' = Append(events, "FetchAll:Fetch")
  /\ lastErr' = "Fetch"
  /\ attempt' = attempt + 1
  /\ UNCHANGED <<mainPc, startup, maxRetries, lastFetchStatus, fetchErr, signalled, restOfSup>>

\* fetchWithRetry: Login on the current context
Relogin ==
  /\ mainPc = "relogin"
  /\ \E loginErr \in {"nil", "err"} :
       /\ events' = Append(events, "Login:" \o loginErr) \o afterLogin(loginErr)
       /\ IF loginErr = "nil"
          THEN mainPc' = "attempt" /\ attempt' = attempt + 1
          ELSE mainPc' = "restart" /\ UNCHANGED attempt
  /\ UNCHANGED <<startup, maxRetries, lastErr, lastFetchStatus, fetchErr, signalled, restOfSup>>

\* fetchWithRetry: Login on the new context; either way the next turn
LoginAfterRestart ==
  /\ mainPc = "restart"
  /\ \E loginErr2 \in {"nil", "err"} : events' = Append(events, "Login:" \o loginErr2)
  /\ mainPc' = "attempt"
  /\ attempt' = attempt + 1
  /\ UNCHANGED <<startup, maxRetries, lastErr, lastFetchStatus, fetchErr, signalled, restOfSup>>

\* fetchWithRetry: the loop is over without a success
AllRetriesFailed ==
  /\ mainPc = "attempt"
  /\ ~inLoop(attempt, maxRetries)
  /\ events' = allRetriesFailed(events)
  /\ lastFetchStatus' = "error"
  /\ fetchErr' = "error"
  /\ mainPc' = afterFetchWithRetry("error")
  /\ UNCHANGED <<startup, maxRetries, attempt, lastErr, signalled, restOfSup>>

SupervisorInit ==
  /\ SetIndexInit
  /\ complaintFile = <<>>
  /\ ioFaulty = FALSE
  /\ InitCalls
  /\ InitPipeline
  /\ portal = {}
  /\ \E m \in FetchRetriesValues : InitSupervisor(m)
  /\ InitFetcher(DefaultMaxPages, 2)
  /\ sweepLog = NoSweep
  /\ InitPool(<<>>)
  /\ InitChat({})
  /\ InitRun

SupervisorNext ==
  \/ Tick
  \/ Signal
  \/ Shutdown
  \/ InitialFetch
  \/ AttemptSucceeds
  \/ AttemptSessionExpired
  \/ AttemptFetchError
  \/ Relogin
  \/ LoginAfterRestart
  \/ AllRetriesFailed

SpecSupervisor == SupervisorInit /\ [][SupervisorNext]_vars

\* the ticker fires every FetchInterval, and every call fetchWithRetry
\* makes is bounded by a timeout: no step of the supervisor waits for ever
\* (the shutdown signal may never come)
SupervisorFairness ==
  /\ WF_vars(Tick)
  /\ WF_vars(InitialFetch)
  /\ WF_vars(AttemptSucceeds \/ AttemptSessionExpired \/ AttemptFetchError)
  /\ WF_vars(Relogin)
  /\ WF_vars(LoginAfterRestart)
  /\ WF_vars(AllRetriesFailed)

SpecSupervisorFair == SupervisorInit /\ [][SupervisorNext]_vars /\ SupervisorFairness

(* SpecStartup: main from its login loop on, then the supervisor          *)

MaxLoginRetriesBound == 2

\* the values MAX_LOGIN_RETRIES can hold: getEnvInt takes any integer and
\* Validate does not look at it
LoginRetriesValues == -1..MaxLoginRetriesBound

\* main: "if loginErr != nil { log.Fatal(...) }" after the login loop
afterLoginLoop(loginErr) == IF loginErr # "nil" THEN "fatal" ELSE "initial"

\* main: one turn of "for attempt := 1; attempt <= cfg.MaxLoginRetries":
\* Login returns nil and the loop breaks, or an error and (after the sleep,
\* unless it was the last turn) the next turn
StartupLogin ==
  /\ mainPc = "login"
  /\ startup.attempt <= startup.max
  /\ \E loginErr \in {"nil", "err"} :
       /\ startup' = [startup EXCEPT !.loginErr = loginErr,
                                     !.logins = Append(@, loginErr),
                                     !.attempt = IF loginErr = "nil" THEN @ ELSE @ + 1]
       /\ mainPc' = IF loginErr = "nil" THEN afterLoginLoop(loginErr) ELSE "login"
  /\ UNCHANGED <<maxRetries, attempt, lastErr, lastFetchStatus, fetchErr, events, signalled,
                 restOfSup>>

\* main: the loop condition is false; log.Fatal when loginErr is not nil,
\* otherwise on to the initial fetch
StartupLoopEnds ==
  /\ mainPc = "login"
  /\ ~(startup.attempt <= startup.max)
  /\ mainPc' = afterLoginLoop(startup.loginErr)
  /\ UNCHANGED <<startup, maxRetries, attempt, lastErr, lastFetchStatus, fetchErr, events,
                 signalled, restOfSup>>

StartupInit ==
  /\ SetIndexInit
  /\ complaintFile = <<>>
  /\ ioFaulty = FALSE
  /\ InitCalls
  /\ InitPipeline
  /\ portal = {}
  /\ mainPc = "login"
  /\ \E m \in LoginRetriesValues :
       startup = [max |-> m, attempt |-> 1, loginErr |-> "nil", logins |-> <<>>]
  /\ \E m \in FetchRetriesValues : maxRetries = m
  /\ attempt = 0
  /\ lastErr = "nil"
  /\ lastFetchStatus = "not started"
  /\ fetchErr = "none"
  /\ events = <<>>
  /\ signalled = FALSE
  /\ InitFetcher(DefaultMaxPages, 2)
  /\ sweepLog = NoSweep
  /\ InitPool(<<>>)
  /\ InitChat({})
  /\ InitRun

StartupNext ==
  \/ StartupLogin
  \/ StartupLoopEnds
  \/ SupervisorNext

SpecStartup == StartupInit /\ [][StartupNext]_vars

-----------------------------------------------------------------------------
(* The fetcher: FetchAll taken page by page, and the sweep its caller runs *)
(* when it returns no error. The dashboard shows the listed complaints in  *)
(* the order of their numbers, perPage rows a page. What the pool does     *)
(* with a page's new complaints is one step here (SpecPipeline takes it    *)
(* worker by worker): some are sent and saved, the others fail.            *)

MaxPagesBound == 2

MaxPerPage == 2

ListingOrder == <<<<"1">>, <<"2">>>>

\* the complaints listed, in the dashboard's order
Listing == SelectSeq(ListingOrder, LAMBDA c : c \in portal)

\* the pages of the dashboard (an empty table is one page)
PageCount ==
  IF Listing = <<>> THEN 1 ELSE (Len(Listing) + perPage - 1) \div perPage

\* the rows of #dataTable on page p
PageLinks(p) ==
  LET first == (p - 1) * perPage
      n == IF Len(Listing) - first > perPage THEN perPage
           ELSE IF Len(Listing) - first < 0 THEN 0 ELSE Len(Listing) - first IN
  [i \in 1..n |-> Link(Listing[first + i])]

\* FetchAll's page limit, one page late
overLimit_OneMore(page, limit) == page > limit + 1

\* FetchAll: "if currentPage > f.cfg.MaxPages"
overLimit(page, limit) == page > limit

\* the results of the workers for the new complaints: a message id from n
\* on for those sent, an error for the others
RECURSIVE resultsOf(_, _, _)
resultsOf(new, sent, n) ==
  IF new = <<>> THEN <<>>
  ELSE LET c == Head(new).ComplaintNumber IN
       IF c \in sent
       THEN <<ProcessResult(c, FormatMessageID(n), consumerName(c), FALSE)>>
            \o resultsOf(Tail(new), sent, n + 1)
       ELSE <<ProcessResult(c, <<>>, <<>>, TRUE)>> \o resultsOf(Tail(new), sent, n)

\* FetchAll returns its list and a typed error: the caller does not sweep
ReturnsError(loginForm, failure) ==
  /\ fetchRet' = [ids |-> <<>>,
                  err |-> IF loginForm THEN "SessionExpired" ELSE "Fetch",
                  failure |-> failure]
  /\ pc' = "idle"
  /\ UNCHANGED toSweep

\* FetchAll leaves its loop and returns its list with a nil error: the
\* caller runs markResolvedComplaints with it
ReturnsNil(failure) ==
  /\ fetchRet' = [ids |-> activeIDs, err |-> "nil", failure |-> failure]
  /\ FetchAllReturns(activeIDs, seen)

\* FetchAll is called: navigation to the dashboard and the wait for its
\* table, either of which can fail
FetchAllNavigates ==
  /\ pc = "idle"
  /\ cycles < MaxCycles
  /\ cycles' = cycles + 1
  /\ activeIDs' = <<>>
  /\ scraped' = <<>>
  /\ currentPage' = 1
  /\ \/ \E step \in {"navigate", "wait"} : \E loginForm \in BOOLEAN :
          ReturnsError(loginForm, [step |-> step, page |-> 1, loginForm |-> loginForm])
     \/ /\ pc' = "page"
        /\ fetchRet' = [ids |-> <<>>, err |-> "none", failure |-> NoFailure]
        /\ UNCHANGED toSweep
  /\ UNCHANGED <<ledgerVars, callVars, portal, jobs, busy, results, chat, msgSeq,
                 notified, unsaved, issued, unlisted, changes, cyc, restarts,
                 supVars, poolVars, convVars, runVars, perPage, maxPages, sweepLog>>

\* FetchAll's loop ends before a page is scraped: the page limit is
\* reached, or scrapePage returns an error
PageLoopBreaks ==
  /\ pc = "page"
  /\ IF overLimit(currentPage, maxPages)
     THEN ReturnsNil(NoFailure)
     ELSE \E loginForm \in BOOLEAN :
            ReturnsNil([step |-> "scrape", page |-> currentPage, loginForm |-> loginForm])
  /\ UNCHANGED <<ledgerVars, callVars, portal, jobs, busy, results, activeIDs, chat,
                 msgSeq, histVars, supVars, poolVars, convVars, runVars, perPage, maxPages, currentPage, scraped,
                 sweepLog>>

\* scrapePage: the rows of the page are read, the new complaints among
\* them processed and the records of those sent saved in one batch
PageScraped ==
  /\ pc = "page"
  /\ ~overLimit(currentPage, maxPages)
  /\ LET complaintLinks == PageLinks(currentPage)
         new == newComplaints(complaintLinks, {}) IN
     \E sent \in SUBSET SeqSet(allIDsOnPage(new)) :
       LET rs == resultsOf(new, sent, msgSeq)
           records == recordsToSave(rs) IN
       /\ activeIDs' = activeIDs \o allIDsOnPage(complaintLinks)
       /\ scraped' = Append(scraped, [page |-> currentPage,
                                      ids |-> allIDsOnPage(complaintLinks),
                                      new |-> allIDsOnPage(new)])
       /\ msgSeq' = msgSeq + Cardinality(sent)
       /\ IF records = <<>> THEN UNCHANGED ledgerVars
          ELSE SaveMultiple(records, OkOutcome(batchBytes(records)))
  /\ pc' = "next"
  /\ UNCHANGED <<callVars, portal, jobs, busy, results, toSweep, chat, histVars,
                 supVars, poolVars, convVars, runVars, perPage, maxPages, currentPage, fetchRet, sweepLog>>

\* FetchAll's loop ends after a page: getNextPageURL fails or finds no
\* next page, or the navigation to the next page or the wait for its
\* table fails
NextPageBreaks ==
  /\ pc = "next"
  /\ \/ \E loginForm \in BOOLEAN :
          ReturnsNil([step |-> "nexturl", page |-> currentPage, loginForm |-> loginForm])
     \/ currentPage >= PageCount /\ ReturnsNil(NoFailure)
     \/ /\ currentPage < PageCount
        /\ \E step \in {"navigate", "wait"} : \E loginForm \in BOOLEAN :
             ReturnsNil([step |-> step, page |-> currentPage + 1, loginForm |-> loginForm])
  /\ UNCHANGED <<ledgerVars, callVars, portal, jobs, busy, results, activeIDs, chat,
                 msgSeq, histVars, supVars, poolVars, convVars, runVars, perPage, maxPages, currentPage, scraped,
                 sweepLog>>

\* FetchAll: the next page is loaded
NextPageLoads ==
  /\ pc = "next"
  /\ currentPage < PageCount
  /\ currentPage' = currentPage + 1
  /\ pc' = "page"
  /\ UNCHANGED <<ledgerVars, callVars, portal, jobs, busy, results, activeIDs, toSweep,
                 chat, msgSeq, histVars, supVars, poolVars, convVars, runVars, perPage, maxPages, scraped, fetchRet,
                 sweepLog>>

FetchInit ==
  /\ SetIndexInit
  /\ complaintFile = <<>>
  /\ ioFaulty = FALSE
  /\ InitCalls
  /\ InitPipeline
  /\ portal \in {SysIds, {<<"2">>}}
  /\ InitSupervisor(DefaultMaxFetchRetries)
  /\ \E m \in 1..MaxPagesBound : \E n \in 1..MaxPerPage : InitFetcher(m, n)
  /\ sweepLog = NoSweep
  /\ InitPool(<<>>)
  /\ InitChat({})
  /\ InitRun

FetchNext ==
  \/ PortalAdd
  \/ PortalDrop
  \/ FetchAllNavigates
  \/ PageLoopBreaks
  \/ PageScraped
  \/ NextPageBreaks
  \/ NextPageLoads
  \/ SweepStep
  \/ SweepDone

SpecFetch == FetchInit /\ [][FetchNext]_vars

-----------------------------------------------------------------------------
(* The worker pool of one processComplaintsConcurrently call: the          *)
(* submitting goroutine, the workers and the collector, with the two       *)
(* channels and the WaitGroup between them                                 *)

MaxComplaints == 3

\* the capacity of WorkerPool.jobs and of WorkerPool.results: 100 each in
\* NewWorkerPool, here small enough for a page of complaints to exceed it
JobBuffer == 1
ResultBuffer == 1

\* the new complaints of a page: distinct numbers, at least one
PoolInputs ==
  {[i \in 1..n |-> Link(FormatMessageID(i))] : n \in 1..MaxComplaints}

restOfPool == <<ledgerVars, callVars, histVars, supVars, fetchVars, sweepLog, portal, pc,
                activeIDs, toSweep, chat, complaints, convVars, runVars>>

\* Close's wg.Wait returning at once
waitReturns_NoWait(n) == TRUE

\* Close: wg.Wait returns when every worker has called Done
waitReturns(n) == n = 0

\* WorkerPool.Submit in the submitting goroutine's loop: the send blocks
\* while the buffer of jobs is full
Submit ==
  /\ submitPc = "submit"
  /\ toSubmit # <<>>
  /\ Len(jobs) < JobBuffer
  /\ jobs' = Append(jobs, Head(toSubmit))
  /\ toSubmit' = Tail(toSubmit)
  /\ UNCHANGED <<restOfPool, busy, results, msgSeq, submitPc, jobsClosed, resultsClosed,
                 workerPc, sending, wg, collected, collectPc>>

\* WorkerPool.Close after the last Submit: close(p.jobs)
CloseJobs ==
  /\ submitPc = "submit"
  /\ toSubmit = <<>>
  /\ jobsClosed' = TRUE
  /\ submitPc' = "wait"
  /\ UNCHANGED <<restOfPool, jobs, busy, results, msgSeq, toSubmit, resultsClosed,
                 workerPc, sending, wg, collected, collectPc>>

\* WorkerPool.Close: p.wg.Wait() returns, then close(p.results)
CloseResults ==
  /\ submitPc = "wait"
  /\ waitReturns(wg)
  /\ resultsClosed' = TRUE
  /\ submitPc' = "done"
  /\ UNCHANGED <<restOfPool, jobs, busy, results, msgSeq, toSubmit, jobsClosed,
                 workerPc, sending, wg, collected, collectPc>>

\* Worker.start: "for job := range w.jobs" receives a job (a closed
\* channel still hands out what it buffers)
StartReceives(w) ==
  /\ workerPc[w] = "recv"
  /\ jobs # <<>>
  /\ busy' = [busy EXCEPT ![w] = Head(jobs)]
  /\ jobs' = Tail(jobs)
  /\ workerPc' = [workerPc EXCEPT ![w] = "process"]
  /\ UNCHANGED <<restOfPool, results, msgSeq, toSubmit, submitPc, jobsClosed,
                 resultsClosed, sending, wg, collected, collectPc>>

\* Worker.start: processComplaint returns its result, an error or the id
\* of the message sent
StartProcesses(w) ==
  /\ workerPc[w] = "process"
  /\ LET c == busy[w].ComplaintNumber IN
     \/ /\ sending' = [sending EXCEPT ![w] = ProcessResult(c, <<>>, <<>>, TRUE)]
        /\ UNCHANGED msgSeq
     \/ /\ sending' = [sending EXCEPT ![w] =
                         ProcessResult(c, FormatMessageID(msgSeq), consumerName(c), FALSE)]
        /\ msgSeq' = msgSeq + 1
  /\ busy' = [busy EXCEPT ![w] = NoJob]
  /\ workerPc' = [workerPc EXCEPT ![w] = "send"]
  /\ UNCHANGED <<restOfPool, jobs, results, toSubmit, submitPc, jobsClosed,
                 resultsClosed, wg, collected, collectPc>>

\* Worker.start: "w.results <- result" blocks while the buffer of results
\* is full, and panics when the channel is closed
StartSends(w) ==
  /\ workerPc[w] = "send"
  /\ IF resultsClosed
     THEN /\ workerPc' = [workerPc EXCEPT ![w] = "panicked"]
          /\ UNCHANGED results
     ELSE /\ Len(results) < ResultBuffer
          /\ results' = Append(results, sending[w])
          /\ workerPc' = [workerPc EXCEPT ![w] = "recv"]
  /\ sending' = [sending EXCEPT ![w] = NoResult]
  /\ UNCHANGED <<restOfPool, jobs, busy, msgSeq, toSubmit, submitPc, jobsClosed,
                 resultsClosed, wg, collected, collectPc>>

\* Worker.start: the range over the closed and drained jobs ends, and the
\* deferred wg.Done runs
StartReturns(w) ==
  /\ workerPc[w] = "recv"
  /\ jobs = <<>>
  /\ jobsClosed
  /\ workerPc' = [workerPc EXCEPT ![w] = "exited"]
  /\ wg' = wg - 1
  /\ UNCHANGED <<restOfPool, jobs, busy, results, msgSeq, toSubmit, submitPc,
                 jobsClosed, resultsClosed, sending, collected, collectPc>>

\* processComplaintsConcurrently: "for result := range pool.Results()"
\* receives a result
ResultsReceive ==
  /\ collectPc = "range"
  /\ results # <<>>
  /\ collected' = Append(collected, Head(results))
  /\ results' = Tail(results)
  /\ UNCHANGED <<restOfPool, jobs, busy, msgSeq, toSubmit, submitPc, jobsClosed,
                 resultsClosed, workerPc, sending, wg, collectPc>>

\* processComplaintsConcurrently: the range over the closed and drained
\* results ends
ResultsEnd ==
  /\ collectPc = "range"
  /\ results = <<>>
  /\ resultsClosed
  /\ collectPc' = "done"
  /\ UNCHANGED <<restOfPool, jobs, busy, results, msgSeq, toSubmit, submitPc,
                 jobsClosed, resultsClosed, workerPc, sending, wg, collected>>

PoolInit ==
  /\ SetIndexInit
  /\ complaintFile = <<>>
  /\ ioFaulty = FALSE
  /\ InitCalls
  /\ InitPipeline
  /\ portal = SysIds
  /\ InitSupervisor(DefaultMaxFetchRetries)
  /\ InitFetcher(DefaultMaxPages, 2)
  /\ sweepLog = NoSweep
  /\ InitChat({})
  /\ InitRun
  /\ \E cs \in PoolInputs : InitPool(cs)

PoolNext ==
  \/ Submit
  \/ CloseJobs
  \/ CloseResults
  \/ \E w \in Workers : StartReceives(w)
  \/ \E w \in Workers : StartProcesses(w)
  \/ \E w \in Workers : StartSends(w)
  \/ \E w \in Workers : StartReturns(w)
  \/ ResultsReceive
  \/ ResultsEnd

\* the Go scheduler runs every goroutine that can take a step: the
\* submitting goroutine, each worker and the collector; processComplaint
\* is taken to return
PoolFairness ==
  /\ WF_vars(Submit \/ CloseJobs \/ CloseResults)
  /\ \A w \in Workers :
       WF_vars(StartReceives(w) \/ StartProcesses(w) \/ StartSends(w) \/ StartReturns(w))
  /\ WF_vars(ResultsReceive \/ ResultsEnd)

SpecPool == PoolInit /\ [][PoolNext]_vars

SpecPoolFair == SpecPool /\ PoolFairness

-----------------------------------------------------------------------------
(* The resolution of a complaint from the chat: handleCallbackQuery and    *)
(* handleMessage, which HandleUpdates runs one update after the other,     *)
(* while main runs its cycles and sweeps                                   *)

\* the ids of the users of the chat
Users == {1, 2}

CancelWord == <<"c", "a", "n", "c", "e", "l">>

\* the texts a user sends: none, a note, the cancel keyword as such and
\* with a leading space and a capital
Texts == {<<>>, <<"o", "k">>, CancelWord, <<" ", "C", "a", "n", "c", "e", "l">>}

\* strings.TrimSpace, for the white space of Texts
RECURSIVE TrimLeft(_)
TrimLeft(t) == IF t # <<>> /\ Head(t) = " " THEN TrimLeft(Tail(t)) ELSE t

RECURSIVE TrimRight(_)
TrimRight(t) ==
  IF t # <<>> /\ t[Len(t)] = " " THEN TrimRight(SubSeq(t, 1, Len(t) - 1)) ELSE t

TrimSpace(t) == TrimRight(TrimLeft(t))

\* the case folding of strings.EqualFold, for the letters of Texts
Fold(ch) == IF ch = "C" THEN "c" ELSE ch

EqualFold(a, b) ==
  /\ Len(a) = Len(b)
  /\ \A i \in DOMAIN a : Fold(a[i]) = Fold(b[i])

\* handleMessage comparing the text as it came with the keyword
isCancel_Exact(text) == text = CancelWord

\* handleMessage: the text is the cancel keyword
isCancel(text) == EqualFold(TrimSpace(text), CancelWord)

\* the ledger files main can find at startup: rows of four fields, and
\* rows of the older two-column format, which give no API id
ChatFiles ==
  { csvWrite(<<<<"1">>, <<"7">>, <<"5">>, <<"n">>>>) \o
      csvWrite(<<<<"2">>, <<"8">>, <<"6">>, <<"n">>>>),
    csvWrite(<<<<"1">>, <<"7">>>>) \o csvWrite(<<<<"2">>, <<"8">>>>) }

\* handleMessage going on after ResolveComplaint whatever it returned
proceeds_Always(ok) == TRUE

\* handleMessage: "if err != nil { ... return }" after ResolveComplaint
proceeds(ok) == ok

restOfChat == <<supVars, fetchVars, poolVars, runVars, sweepLog, members, callVars, pc, jobs, busy, results,
                activeIDs, toSweep, msgSeq, notified, unsaved, issued, changes, cyc,
                cycles, restarts>>

\* the entry of user u in c.pendingResolutions (NoPending: none)
EntryOf(u) == IF u \in DOMAIN pendingResolutions THEN pendingResolutions[u] ELSE NoPending

\* handleCallbackQuery taking a press on any button for the second press
isToggle_Always(pending, complaintNumber) == TRUE

\* handleCallbackQuery: the second press of the same button
isToggle(pending, complaintNumber) == pending.ComplaintNumber = complaintNumber

\* handleCallbackQuery for "resolve:complaintNumber" pressed by user u, up
\* to the look-up of the message id: without one in the ledger the
\* handler answers with an error and returns
handleCallbackQuery ==
  /\ handling.pc \in {"idle", "done"}
  /\ press.pc \in {"idle", "done"}
  /\ \E u \in members : \E complaintNumber \in SysIds :
       LET messageID == GetMessageID(complaintNumber)
           p == [NoPress EXCEPT !.user = u, !.complaintNumber = complaintNumber,
                                !.messageID = messageID, !.before = EntryOf(u),
                                !.inLedger = Exists(complaintNumber)] IN
       press' = IF messageID = <<>>
                THEN [p EXCEPT !.pc = "done", !.answer = "Error: Message not found"]
                ELSE [p EXCEPT !.pc = "store"]
  /\ handling' = NoHandling
  /\ UNCHANGED <<restOfChat, ledgerVars, portal, unlisted, chat, pendingResolutions, succeeded>>

\* handleCallbackQuery from c.mu.Lock on: a second press for the same
\* complaint removes the entry and deletes the prompt it names; otherwise
\* the entry of the user is set and the prompt sent, whose message id is
\* put in the entry when the send succeeds
handleCallbackQueryStores ==
  /\ press.pc = "store"
  /\ LET u == press.user
         pending == EntryOf(u)
         p == [press EXCEPT !.pc = "done", !.before = pending,
                            !.inLedger = Exists(press.complaintNumber)] IN
     IF u \in DOMAIN pendingResolutions /\ isToggle(pending, press.complaintNumber)
     THEN /\ pendingResolutions' = MapDel(pendingResolutions, u)
          /\ press' = [p EXCEPT !.deleted = pending.PromptMessageID > 0,
                                !.answer = "Resolution cancelled"]
     ELSE \E sent \in BOOLEAN :
            /\ pendingResolutions' =
                 MapSet(pendingResolutions, u,
                        [ComplaintNumber |-> press.complaintNumber,
                         MessageID |-> press.messageID,
                         PromptMessageID |-> IF sent THEN msgSeq ELSE 0])
            /\ press' = [p EXCEPT !.answer = IF sent THEN "Please send your remarks"
                                             ELSE "Error sending prompt"]
  /\ UNCHANGED <<restOfChat, ledgerVars, portal, unlisted, chat, handling, succeeded>>

\* handleMessage taking no complaint for removed from the ledger
alreadyResolved_Never(complaintNumber) == FALSE

\* handleMessage: "if !storage.Exists(pending.ComplaintNumber)"
alreadyResolved(complaintNumber) == ~Exists(complaintNumber)

\* handleMessage leaving the entry of the user in the map
popPending_Kept(m, u) == m

\* handleMessage: "delete(c.pendingResolutions, message.From.ID)"
popPending(m, u) == MapDel(m, u)

\* handleMessage for the text of user u, up to its ResolveComplaint call
handleMessage ==
  /\ handling.pc \in {"idle", "done"}
  /\ press.pc \in {"idle", "done"}
  /\ press' = NoPress
  /\ \E u \in members : \E text \in Texts :
       IF text = <<>> \/ u \notin DOMAIN pendingResolutions
       THEN /\ handling' = [NoHandling EXCEPT !.pc = "done"]
            /\ UNCHANGED pendingResolutions
       ELSE LET pending == pendingResolutions[u]
                apiID == GetAPIID(pending.ComplaintNumber)
                h == [pc |-> "done", user |-> u, text |-> text, had |-> TRUE,
                      pending |-> pending, exists |-> Exists(pending.ComplaintNumber),
                      apiID |-> MapGet(apiIDs, pending.ComplaintNumber),
                      calls |-> <<>>, log |-> <<>>] IN
            /\ pendingResolutions' = popPending(pendingResolutions, u)
            /\ handling' =
                 IF isCancel(text) THEN [h EXCEPT !.log = <<"cancelled">>]
                 ELSE IF alreadyResolved(pending.ComplaintNumber)
                 THEN [h EXCEPT !.log = <<"already resolved">>]
                 ELSE IF apiID = <<>> THEN [h EXCEPT !.log = <<"no API id">>]
                 ELSE [h EXCEPT !.pc = "call", !.log = <<"call">>,
                                !.calls = <<[apiID |-> apiID, remark |-> text]>>]
  /\ UNCHANGED <<restOfChat, ledgerVars, portal, unlisted, chat, succeeded>>

\* ResolveComplaint returns: an error ends handleMessage; the call having
\* succeeded, the portal has the complaint resolved and lists it no more
ResolveComplaintReturns ==
  /\ handling.pc = "call"
  /\ \E ok \in BOOLEAN :
       /\ IF ok
          THEN /\ portal' = portal \ {handling.pending.ComplaintNumber}
               /\ unlisted' = unlisted \cup {handling.pending.ComplaintNumber}
               /\ succeeded' = [succeeded EXCEPT ![handling.pending.ComplaintNumber] = Inc(@)]
          ELSE UNCHANGED <<portal, unlisted, succeeded>>
       /\ IF proceeds(ok)
          THEN /\ handling' = [handling EXCEPT !.pc = "edit",
                                 !.log = @ \o <<IF ok THEN "call ok" ELSE "call failed">>]
               /\ chat' = handling.pending.ComplaintNumber
          ELSE /\ handling' = Handled(<<"call failed", "error reply">>)
               /\ UNCHANGED chat
  /\ UNCHANGED <<restOfChat, ledgerVars, members, pendingResolutions, press>>

(* SpecChat: button presses and texts of a user on a ledger loaded at      *)
(* startup, the portal dropping complaints, main scraping and sweeping;    *)
(* the rewrites of the file succeed                                        *)

ChatInit ==
  /\ \E f \in ChatFiles :
       /\ complaintFile = f
       /\ seen = loadFromFile(f).seen
       /\ messageIDs = loadFromFile(f).messageIDs
       /\ apiIDs = loadFromFile(f).apiIDs
       /\ consumerNames = loadFromFile(f).consumerNames
  /\ ioFaulty = FALSE
  /\ InitCalls
  /\ InitPipeline
  /\ portal = SysIds
  /\ InitSupervisor(DefaultMaxFetchRetries)
  /\ InitFetcher(DefaultMaxPages, 2)
  /\ sweepLog = NoSweep
  /\ InitPool(<<>>)
  /\ InitChat({1})
  /\ InitRun

ChatNext ==
  \/ handleCallbackQuery
  \/ handleCallbackQueryStores
  \/ handleMessage
  \/ ResolveComplaintReturns
  \/ handleMessageRemoves
  \/ PortalDrop
  \/ FetchAllStart
  \/ ScrapePage
  \/ SweepStep
  \/ SweepDone

SpecChat == ChatInit /\ [][ChatNext]_vars

-----------------------------------------------------------------------------
(* The update loop: Client.HandleUpdates polling the Bot API with its      *)
(* offset and going through the updates of each answer. The handlers it    *)
(* calls are taken step by step in SpecChat; here a call of a handler is   *)
(* the record of the update it was given.                                  *)

MaxUpdates == 3
MaxPollFailures == 2

\* Update: a callback query, a message, an update with neither (an edited
\* message, a change of membership), or an item that does not unmarshal
UpdateKinds == {"callback", "message", "other", "malformed"}

\* everything but the update loop's variables
restOfUpd == <<ledgerVars, callVars, sysVars, histVars, supVars, fetchVars, sweepLog, poolVars,
               convVars, stoVars, holderVars>>

\* the Bot API on getUpdates(offset): an update is confirmed, and
\* forgotten, once getUpdates is called with an offset higher than its id
Confirm(held, offset) == SelectSeq(held, LAMBDA u : u.UpdateID >= offset)

\* getUpdates: the items of the result that unmarshal into an Update, in
\* the order of the array
Decode(result) == SelectSeq(result, LAMBDA u : u.kind # "malformed")

\* HandleUpdates acknowledging nothing
nextOffset_Same(UpdateID) == UpdateID

\* HandleUpdates: "offset = update.UpdateID + 1"
nextOffset(UpdateID) == UpdateID + 1

\* HandleUpdates taking the default of its select whatever ctx is
selectDone_Never(ctxDone) == FALSE

\* HandleUpdates: the select takes "case <-ctx.Done()" when ctx is done and
\* its default only when it is not
selectDone(ctxDone) == ctxDone

\* environment: somebody presses a button or writes in the chat; the Bot
\* API numbers the update and holds it
Arrives ==
  /\ server.next < FirstUpdateID + MaxUpdates
  /\ \E kind \in UpdateKinds :
       server' = [held |-> Append(server.held, [UpdateID |-> server.next, kind |-> kind]),
                  next |-> server.next + 1]
  /\ UNCHANGED <<poller, dispatched, restOfUpd>>

\* HandleUpdates at its select with ctx not done: getUpdates(offset)
\* answers with the first updates the Bot API holds from offset on (none
\* when it holds none for the thirty seconds of the long poll)
getUpdates ==
  /\ poller.pc = "poll"
  /\ ~selectDone(poller.ctxDone)
  /\ LET held == Confirm(server.held, poller.offset)
     IN /\ server' = [server EXCEPT !.held = held]
        /\ \E n \in 0..Len(held) :
             /\ n = 0 => held = <<>>
             /\ LET updates == Decode(SubSeq(held, 1, n))
                IN poller' = [poller EXCEPT !.updates = updates,
                                            !.passed = poller.offset,
                                            !.pc = IF updates = <<>> THEN "poll" ELSE "range"]
  /\ UNCHANGED <<dispatched, restOfUpd>>

\* getUpdates returns an error (the request or its answer is lost): five
\* seconds of sleep, then the select again
getUpdatesFails ==
  /\ poller.pc = "poll"
  /\ ~selectDone(poller.ctxDone)
  /\ poller.failed < MaxPollFailures
  /\ \E reached \in BOOLEAN :
       server' = [server EXCEPT !.held = IF reached THEN Confirm(server.held, poller.offset)
                                         ELSE server.held]
  /\ poller' = [poller EXCEPT !.passed = poller.offset, !.failed = poller.failed + 1,
                              !.pc = "sleep"]
  /\ UNCHANGED <<dispatched, restOfUpd>>

\* time.Sleep(5 * time.Second) is over
Sleeps ==
  /\ poller.pc = "sleep"
  /\ poller' = [poller EXCEPT !.pc = "poll"]
  /\ UNCHANGED <<server, dispatched, restOfUpd>>

\* one turn of "for _, update := range updates": the handler of the
\* update's kind (none for the other kinds), then the offset
Dispatch ==
  /\ poller.pc = "range"
  /\ LET update == Head(poller.updates)
         rest == Tail(poller.updates)
     IN /\ dispatched' = Append(dispatched, update)
        /\ poller' = [poller EXCEPT !.offset = nextOffset(update.UpdateID),
                                    !.updates = rest,
                                    !.pc = IF rest = <<>> THEN "poll" ELSE "range"]
  /\ UNCHANGED <<server, restOfUpd>>

\* main returns: its deferred callbackCancel makes ctx done
callbackCancel ==
  /\ ~poller.ctxDone
  /\ poller' = [poller EXCEPT !.ctxDone = TRUE]
  /\ UNCHANGED <<server, dispatched, restOfUpd>>

\* HandleUpdates at its select with ctx done: return
HandleUpdatesReturns ==
  /\ poller.pc = "poll"
  /\ selectDone(poller.ctxDone)
  /\ poller' = [poller EXCEPT !.pc = "stopped"]
  /\ UNCHANGED <<server, dispatched, restOfUpd>>

UpdatesInit ==
  /\ SetIndexInit
  /\ complaintFile = <<>>
  /\ ioFaulty = FALSE
  /\ InitCalls
  /\ InitPipeline
  /\ portal = {}
  /\ InitSupervisor(DefaultMaxFetchRetries)
  /\ InitFetcher(DefaultMaxPages, 2)
  /\ sweepLog = NoSweep
  /\ InitPool(<<>>)
  /\ InitChat({})
  /\ InitRun

UpdatesNext ==
  \/ Arrives
  \/ getUpdates
  \/ getUpdatesFails
  \/ Sleeps
  \/ Dispatch
  \/ callbackCancel
  \/ HandleUpdatesReturns

SpecUpdates == UpdatesInit /\ [][UpdatesNext]_vars

\* the handlers return and the sleep ends: HandleUpdates does not stay for
\* ever inside a turn of its range, in its sleep or at its select with ctx
\* done (a poll need not come, and neither need the cancellation)
UpdatesFairness ==
  /\ WF_vars(Dispatch)
  /\ WF_vars(Sleeps)
  /\ WF_vars(HandleUpdatesReturns)

SpecUpdatesFair == UpdatesInit /\ [][UpdatesNext]_vars /\ UpdatesFairness

-----------------------------------------------------------------------------
(* ComplaintStorage (storage.go): IsNew and MarkAsSeen called from several *)
(* goroutines, each call taking cs.mu and releasing it when it returns;    *)
(* every goroutine sends on the done channel when its calls are made, and  *)
(* main receives once per goroutine (TestComplaintStorage_Concurrency)     *)

NumGoroutines == 2
Goroutines == 1..NumGoroutines

\* the complaint ids of the calls
TestIDs == {"CP001", "CP002"}

IsNewCall(id) == [op |-> "IsNew", id |-> id]
MarkAsSeenCall(id) == [op |-> "MarkAsSeen", id |-> id]

\* what a goroutine does: MarkAsSeen and IsNew of an id, in either order
Programs ==
  {<<MarkAsSeenCall(a), IsNewCall(a)>> : a \in TestIDs}
    \cup {<<IsNewCall(a), MarkAsSeenCall(a)>> : a \in TestIDs}

\* everything but the variables of ComplaintStorage and its callers
restOfSto == <<ledgerVars, callVars, sysVars, histVars, supVars, fetchVars, sweepLog, poolVars,
               convVars, updVars, holderVars>>

\* a call that returns without its deferred cs.mu.Unlock()
Unlock_Held(g) == g

\* "defer cs.mu.Unlock()": the mutex is free again
Unlock(g) == 0

\* IsNew: "return !cs.seen[complaintID]"
notSeen(m, complaintID) == complaintID \notin m

\* MarkAsSeen: "cs.seen[complaintID] = true"
markSeen(m, complaintID) == m \cup {complaintID}

\* a goroutine calls its next method, and cs.mu.Lock() returns: the mutex
\* was free
Calls(g) ==
  /\ gor[g].pc = "next"
  /\ gor[g].todo # <<>>
  /\ storage.mu = 0
  /\ LET call == Head(gor[g].todo)
     IN /\ gor' = [gor EXCEPT ![g] = [@ EXCEPT !.pc = "locked", !.op = call.op,
                                                !.id = call.id, !.todo = Tail(@),
                                                !.before = storage.returned]]
        /\ storage' = [storage EXCEPT !.mu = g,
                                      !.called = IF call.op = "MarkAsSeen"
                                                 THEN @ \cup {call.id} ELSE @]
  /\ UNCHANGED <<done, restOfSto>>

\* IsNew reads the map and returns
IsNewReturns(g) ==
  /\ gor[g].pc = "locked"
  /\ gor[g].op = "IsNew"
  /\ gor' = [gor EXCEPT ![g] =
               [@ EXCEPT !.pc = "next",
                         !.got = Append(@, [id |-> gor[g].id,
                                            isNew |-> notSeen(storage.seen, gor[g].id),
                                            before |-> gor[g].before,
                                            called |-> storage.called])]]
  /\ storage' = [storage EXCEPT !.mu = Unlock(g)]
  /\ UNCHANGED <<done, restOfSto>>

\* MarkAsSeen writes the map and returns
MarkAsSeenReturns(g) ==
  /\ gor[g].pc = "locked"
  /\ gor[g].op = "MarkAsSeen"
  /\ gor' = [gor EXCEPT ![g] = [@ EXCEPT !.pc = "next"]]
  /\ storage' = [storage EXCEPT !.seen = markSeen(@, gor[g].id),
                                !.returned = @ \cup {gor[g].id},
                                !.mu = Unlock(g)]
  /\ UNCHANGED <<done, restOfSto>>

\* "done <- true" meets one "<-done" of main
SendsDone(g) ==
  /\ gor[g].pc = "next"
  /\ gor[g].todo = <<>>
  /\ done < NumGoroutines
  /\ done' = done + 1
  /\ gor' = [gor EXCEPT ![g] = [@ EXCEPT !.pc = "exited"]]
  /\ UNCHANGED <<storage, restOfSto>>

StorageInit ==
  /\ SetIndexInit
  /\ complaintFile = <<>>
  /\ ioFaulty = FALSE
  /\ InitCalls
  /\ InitPipeline
  /\ portal = {}
  /\ InitSupervisor(DefaultMaxFetchRetries)
  /\ InitFetcher(DefaultMaxPages, 2)
  /\ sweepLog = NoSweep
  /\ InitPool(<<>>)
  /\ InitChat({})
  /\ InitUpdates
  /\ InitHolder({})
  /\ \E ids \in {{}, {"CP001"}} : \E todo \in [Goroutines -> Programs] :
       InitComplaintStorage(ids, todo)

StorageNext ==
  \E g \in Goroutines :
    \/ Calls(g)
    \/ IsNewReturns(g)
    \/ MarkAsSeenReturns(g)
    \/ SendsDone(g)

\* the scheduler runs every goroutine that can take a step
StorageFairness ==
  \A g \in Goroutines :
    WF_vars(Calls(g) \/ IsNewReturns(g) \/ MarkAsSeenReturns(g) \/ SendsDone(g))

SpecStorage == StorageInit /\ [][StorageNext]_vars

SpecStorageFair == SpecStorage /\ StorageFairness

-----------------------------------------------------------------------------
(* The ContextHolder of package browser: Get, Set and Cancel called from   *)
(* main and from the goroutine of HandleUpdates, each under h.mu (an       *)
(* RWMutex). A browser context is a number; cancelling it puts it in       *)
(* sessions.cancelled.                                                     *)

MaxSessions == 3

\* main and the goroutine of HandleUpdates
HolderCallers == {1, 2}

\* everything but the variables of the holder and its callers
restOfHolder == <<ledgerVars, callVars, sysVars, histVars, supVars, fetchVars, sweepLog,
                  poolVars, convVars, updVars, stoVars>>

\* Set and Cancel without the call of h.cancel
cancelOld_None(h) == {}

\* Set and Cancel: "if h.cancel != nil { h.cancel() }"
cancelOld(h) == IF h.cancel # 0 THEN {h.cancel} ELSE {}

\* a caller calls Get
Get(c) ==
  /\ callers[c].pc = "idle"
  /\ callers' = [callers EXCEPT ![c] = [pc |-> "RLock", op |-> "Get", ctx |-> 0]]
  /\ UNCHANGED <<holder, rw, sessions, restOfHolder>>

\* h.mu.RLock() returns: no writer holds the mutex
GetLocks(c) ==
  /\ callers[c].pc = "RLock"
  /\ rw.writer = 0
  /\ rw' = [rw EXCEPT !.readers = @ \cup {c}]
  /\ callers' = [callers EXCEPT ![c] = [@ EXCEPT !.pc = "read"]]
  /\ UNCHANGED <<holder, sessions, restOfHolder>>

\* Get: "return h.ctx", and the deferred RUnlock
GetReturns(c) ==
  /\ callers[c].pc = "read"
  /\ rw' = [rw EXCEPT !.readers = @ \ {c}]
  /\ callers' = [callers EXCEPT ![c] = [pc |-> "idle", op |-> "Get", ctx |-> holder.ctx]]
  /\ UNCHANGED <<holder, sessions, restOfHolder>>

\* a caller makes a browser context with NewContext and calls Set with it
Set(c) ==
  /\ callers[c].pc = "idle"
  /\ sessions.created < MaxSessions
  /\ sessions' = [sessions EXCEPT !.created = @ + 1]
  /\ callers' = [callers EXCEPT ![c] = [pc |-> "Lock", op |-> "Set", ctx |-> sessions.created + 1]]
  /\ UNCHANGED <<holder, rw, restOfHolder>>

\* a caller calls Cancel
Cancel(c) ==
  /\ callers[c].pc = "idle"
  /\ callers' = [callers EXCEPT ![c] = [pc |-> "Lock", op |-> "Cancel", ctx |-> 0]]
  /\ UNCHANGED <<holder, rw, sessions, restOfHolder>>

\* h.mu.Lock() returns: nobody holds the mutex
WriterLocks(c) ==
  /\ callers[c].pc = "Lock"
  /\ rw.writer = 0
  /\ rw.readers = {}
  /\ rw' = [rw EXCEPT !.writer = c]
  /\ callers' = [callers EXCEPT ![c] = [@ EXCEPT !.pc = "locked"]]
  /\ UNCHANGED <<holder, sessions, restOfHolder>>

\* Set: the old context is cancelled
SetCancels(c) ==
  /\ callers[c].pc = "locked"
  /\ callers[c].op = "Set"
  /\ sessions' = [sessions EXCEPT !.cancelled = @ \cup cancelOld(holder)]
  /\ callers' = [callers EXCEPT ![c] = [@ EXCEPT !.pc = "install"]]
  /\ UNCHANGED <<holder, rw, restOfHolder>>

\* Set: "h.ctx = ctx; h.cancel = cancel", and the deferred Unlock
SetReturns(c) ==
  /\ callers[c].pc = "install"
  /\ holder' = [ctx |-> callers[c].ctx, cancel |-> callers[c].ctx]
  /\ sessions' = [sessions EXCEPT !.installed = Append(@, callers[c].ctx)]
  /\ rw' = [rw EXCEPT !.writer = 0]
  /\ callers' = [callers EXCEPT ![c] = [@ EXCEPT !.pc = "idle"]]
  /\ UNCHANGED restOfHolder

\* Cancel: the context is cancelled and h.cancel set to nil (h.ctx stays),
\* and the deferred Unlock
CancelReturns(c) ==
  /\ callers[c].pc = "locked"
  /\ callers[c].op = "Cancel"
  /\ sessions' = [sessions EXCEPT !.cancelled = @ \cup cancelOld(holder)]
  /\ holder' = [holder EXCEPT !.cancel = 0]
  /\ rw' = [rw EXCEPT !.writer = 0]
  /\ callers' = [callers EXCEPT ![c] = [@ EXCEPT !.pc = "idle"]]
  /\ UNCHANGED restOfHolder

HolderInit ==
  /\ SetIndexInit
  /\ complaintFile = <<>>
  /\ ioFaulty = FALSE
  /\ InitCalls
  /\ InitPipeline
  /\ portal = {}
  /\ InitSupervisor(DefaultMaxFetchRetries)
  /\ InitFetcher(DefaultMaxPages, 2)
  /\ sweepLog = NoSweep
  /\ InitPool(<<>>)
  /\ InitChat({})
  /\ InitUpdates
  /\ InitComplaintStorage({}, <<>>)
  /\ InitHolder(HolderCallers)

HolderNext ==
  \E c \in HolderCallers :
    \/ Get(c)
    \/ GetLocks(c)
    \/ GetReturns(c)
    \/ Set(c)
    \/ Cancel(c)
    \/ WriterLocks(c)
    \/ SetCancels(c)
    \/ SetReturns(c)
    \/ CancelReturns(c)

SpecHolder == HolderInit /\ [][HolderNext]_vars

-----------------------------------------------------------------------------
(* Properties of the ledger *)

\* the records the reader finds in a file content, whatever their number
\* of fields, up to the first quoting error
Rows(data) == LET p == parseAll(data, <<>>) IN {p.records[i] : i \in 1..Len(p.records)}

RowKeys(data) == {r[1] : r \in Rows(data)}

RowOf(r) == <<r.ComplaintID, r.MessageID, r.APIID, r.ConsumerName>>

\* what the getters answer for the ids of an index
View(idx) ==
  [d \in idx.seen |-> <<MapGet(idx.messageIDs, d), MapGet(idx.apiIDs, d),
                        MapGet(idx.consumerNames, d)>>]

\* C1: write-then-index: in every reachable state every id for which IsNew
\* is false has a row with that key in the ledger file, also after calls
\* that failed with a file error part-way.
C1_WriteThenIndex == \A d \in Ids : ~IsNew(d) => d \in RowKeys(complaintFile)

\* C2: SaveMultiple is all-or-nothing: after an error none of the batch's
\* records was added to the maps or to the file; after nil every record of
\* the batch is in the maps and in the file.
C2_AllOrNothing ==
  ret.op = "save" =>
    \A i \in DOMAIN ret.arg :
      LET r == ret.arg[i] IN
      IF ret.err
      THEN /\ r.ComplaintID \notin pre.idx.seen => IsNew(r.ComplaintID)
           /\ RowOf(r) \notin Rows(pre.file) => RowOf(r) \notin Rows(complaintFile)
      ELSE /\ ~IsNew(r.ComplaintID)
           /\ RowOf(r) \in Rows(complaintFile)

\* C6 as claimed: for an id that is in the ledger, among the
\* RemoveIfExists(id) calls made since, exactly one returned (true, nil).
C6_ExactlyOneTrueNil ==
  \A d \in Ids : rmHist[d].from /\ rmHist[d].calls >= 1 => rmHist[d].oks = 1

\* C6 amended: among the RemoveIfExists(id) calls made since the id was
\* last put into the ledger exactly one returned removed = true (none when
\* the id was not in the ledger); its error is nil unless the rewrite of
\* the file failed, and every other call returned (false, nil).
C6_ExactlyOneRemoved ==
  /\ \A d \in Ids :
       /\ rmHist[d].trues <= 1
       /\ rmHist[d].oks <= rmHist[d].trues
       /\ rmHist[d].calls >= 1 => rmHist[d].trues = (IF rmHist[d].from THEN 1 ELSE 0)
  /\ ret.op = "removeIfExists" =>
       /\ ret.removed = ret.had
       /\ ret.err => ret.removed
       /\ ret.removed /\ ~ret.err => rmHist[ret.arg].oks = 1

C6_Witness ==
  \E d \in Ids : rmHist[d].from /\ rmHist[d].calls = 2 /\ rmHist[d].oks = 1
                 /\ ret.op = "removeIfExists" /\ ret.arg = d /\ ~ret.removed

\* C7 as claimed: Remove(d) for an id that is not in the ledger (so also
\* the second of two Remove(d) calls) changes neither the maps nor the
\* content of the file.
C7_RemoveAbsentNoOp ==
  ret.op = "remove" /\ ~ret.had => CurrentIndex = pre.idx /\ complaintFile = pre.file

\* C7 amended: Remove(d) for an id that is not in the ledger (so also the
\* second of two Remove(d) calls) leaves the maps unchanged and rewrites
\* the file from them: when it returns nil the file holds one row per
\* record of the maps, in any order, and loads to the same records.
C7_RemoveAbsentKeepsIndex ==
  ret.op = "remove" /\ ~ret.had =>
    /\ CurrentIndex = pre.idx
    /\ ~ret.err =>
         /\ View(loadFromFile(complaintFile)) = View(CurrentIndex)
         /\ Len(parseAll(complaintFile, <<>>).records) = Cardinality(seen)
         /\ prev.op = "remove" /\ ~prev.err =>
              View(loadFromFile(complaintFile)) = View(loadFromFile(pre.file))

C7_Witness ==
  /\ ret.op = "remove" /\ ~ret.had /\ ~ret.err
  /\ prev.op = "remove" /\ prev.arg = ret.arg /\ prev.had /\ ~prev.err
  /\ seen # {}

\* what C8 asks of a record after a load
Known(r) ==
  /\ ~IsNew(r.ComplaintID)
  /\ GetMessageID(r.ComplaintID) = r.MessageID
  /\ GetAPIID(r.ComplaintID) = r.APIID
  /\ GetConsumerName(r.ComplaintID) = r.ConsumerName

ReadsBack(r) ==
  /\ \A f \in {r.ComplaintID, r.MessageID, r.APIID, r.ConsumerName} : ~HasCRLF(f)
  /\ ~(r.ComplaintID \in HeaderNames /\ complaintFile = batchBytes(<<r>>))

C9_SaveRemoveReload ==
  ret.op = "load" /\ prev.op = "remove" /\ ~prev.err =>
    /\ IsNew(prev.arg)
    /\ pre.idx.seen \subseteq seen
    /\ View(CurrentIndex) = View(pre.idx)

C9_Witness ==
  /\ ret.op = "load" /\ prev.op = "remove" /\ prev.had /\ ~prev.err
  /\ IsNew(prev.arg)
  /\ seen # {}

\* the lines of a file content
RECURSIVE Lines(_)
Lines(data) ==
  IF data = <<>> THEN <<>>
  ELSE LET nl == IndexOf(data, LF) IN
       IF nl = 0 THEN <<data>>
       ELSE <<Prefix(data, nl)>> \o Lines(Suffix(data, nl + 1))

\* the keys of the lines that are rows of four fields
WellFormedKeys(data) ==
  {parseAll(l, <<>>).records[1][1] :
     l \in {Lines(data)[i] : i \in 1..Len(Lines(data))} \cap
           {x \in LoadLines : /\ ~parseAll(x, <<>>).err
                              /\ Len(parseAll(x, <<>>).records) = 1
                              /\ Len(parseAll(x, <<>>).records[1]) = 4}}

\* C10: a load of a file that holds a malformed row skips only that row:
\* every well-formed row of the file is in the maps afterwards.
C10_MalformedRowSkipped == ret.op = "load" => WellFormedKeys(complaintFile) \subseteq seen

-----------------------------------------------------------------------------
(* Properties of the pipeline *)

InPool ==
  {l.ComplaintNumber : l \in SeqSet(jobs)} \cup
  {busy[w].ComplaintNumber : w \in {x \in Workers : busy[x] # NoJob}} \cup
  {r.ComplaintID : r \in SeqSet(results)}

C4_OnlyNewDispatched ==
  /\ \A c \in InPool : IsNew(c)
  /\ pc = "sweep" /\ cyc.allKnown =>
       /\ cyc.sends = 0
       /\ cyc.saves = 0
       /\ cyc.removes = 0 => complaintFile = cyc.file /\ CurrentIndex = cyc.idx

C4_Witness ==
  /\ pc = "sweep" /\ cyc.allKnown /\ cycles = 2 /\ restarts = 0 /\ changes = 0
  /\ portal = SysIds /\ seen = SysIds
  /\ notified[<<"1">>] = 1 /\ notified[<<"2">>] = 1
  /\ complaintFile = cyc.file

-----------------------------------------------------------------------------
(* Properties of the supervisor *)

Count(ev, S) == Cardinality({i \in DOMAIN ev : ev[i] \in S})

FetchAllEvents == {"FetchAll:nil", "FetchAll:SessionExpired", "FetchAll:Fetch"}

\* FetchAll calls of the running (or last) fetchWithRetry
Runs == Count(events, FetchAllEvents)

Alerts == Count(events, {"alert"})

\* inside fetchWithRetry, or back from it
InLadder == mainPc \in {"attempt", "relogin", "restart"} \/ fetchErr # "none"

\* fetchWithRetry has returned and the loop is at its select (or was
\* stopped there)
Returned == mainPc \in {"ticker", "stopped"} /\ fetchErr # "none"

\* C11 as stated: no fetch failure terminates the Supervisor, a failure of
\* the initial fetch cycle included: the process is never ended by a fetch
\* error.
C11_NoFetchFailureTerminates == mainPc # "fatal"

\* C11 amended: no failure of a periodic fetch terminates the Supervisor.
\* The process is ended by a fetch error only when the initial fetch fails
\* (log.Fatal, before any status is recorded); when fetchWithRetry has
\* exhausted its attempts the status is an error status and main is back at
\* the select of its loop, and from there the next tick starts a new
\* fetchWithRetry unless the shutdown signal stops the loop.
C11_PeriodicFailureKeepsLoop ==
  /\ [](mainPc = "fatal" => fetchErr = "none" /\ lastFetchStatus = "not started")
  /\ [](fetchErr = "error" /\ mainPc \notin {"attempt", "relogin", "restart"}
          => mainPc \in {"ticker", "stopped"} /\ lastFetchStatus = "error")
  /\ ((mainPc = "ticker" /\ fetchErr = "error")
        ~> ((mainPc = "attempt" /\ attempt = 0 /\ events = <<>>) \/ mainPc = "stopped"))

\* a new fetchWithRetry has begun after one that exhausted its attempts
C11_Witness ==
  /\ mainPc = "attempt" /\ attempt = 0 /\ events = <<>>
  /\ fetchErr = "error" /\ lastFetchStatus = "error"

C13_AlertIffAllFailed ==
  InLadder =>
    /\ Alerts <= 1
    /\ Returned => (Alerts = 1 <=> "FetchAll:nil" \notin SeqSet(events))
    /\ Returned => (Alerts = 0 <=> fetchErr = "nil")
    /\ Alerts = 1 =>
         /\ lastFetchStatus = "error"
         /\ "sweep" \notin SeqSet(events)
         /\ \E i \in DOMAIN events : \E j \in DOMAIN events :
              i < j /\ events[i] = "status:error" /\ events[j] = "alert"

\* a ladder of several failed attempts has returned with its alert sent
C13_Witness == Returned /\ Alerts = 1 /\ Runs >= 2

\* the positions of events at which a FetchAll has failed with
\* SessionExpired and the Login after it has succeeded
Recovered == {i \in DOMAIN events :
                /\ events[i] = "FetchAll:SessionExpired"
                /\ i + 1 \in DOMAIN events
                /\ events[i + 1] = "Login:nil"}

\* what C14 says of the attempt at position i: the next thing done is
\* another FetchAll (no new browser context before it), and if that one
\* succeeds fetchWithRetry returns nil with the status "success" and no
\* alert
RecoveryRetries(i) ==
  /\ i + 2 \in DOMAIN events => events[i + 2] \in FetchAllEvents
  /\ Returned => i + 2 \in DOMAIN events
  /\ (Returned /\ i + 2 \in DOMAIN events /\ events[i + 2] = "FetchAll:nil")
       => fetchErr = "nil" /\ lastFetchStatus = "success" /\ Alerts = 0

-----------------------------------------------------------------------------
(* Properties of the fetcher and of the sweep *)

\* the observed set: the ids FetchAll returned to its caller
Observed == SeqSet(fetchRet.ids)

\* the fields and the row the ledger holds for an id
Held(idx, data, c) == <<View(idx)[c], {r \in Rows(data) : r[1] = c}>>

C16_SweepOnlyResolved == \A c \in sweepLog.edited : c \notin portal \/ c \in unlisted

\* C17: whenever the navigation to a page, the wait for its table or the
\* scraping of it fails, on the first page or a later one, FetchAll returns
\* a typed error: SessionExpired if the login form is visible, Fetch
\* otherwise.
C17_FailureReturnsTypedError ==
  fetchRet.failure.step \in {"navigate", "wait", "scrape"} =>
    fetchRet.err = (IF fetchRet.failure.loginForm THEN "SessionExpired" ELSE "Fetch")

\* C18: in one FetchAll at most maxPages pages have their rows read and
\* their new complaints dispatched: the pages scraped are the pages 1, 2,
\* ... in order and none is beyond maxPages, also when FetchAll has
\* navigated to the page after the maxPages-th.
C18_AtMostMaxPages ==
  /\ Len(scraped) <= maxPages
  /\ \A i \in DOMAIN scraped : scraped[i].page = i

\* FetchAll returned after scraping maxPages pages and loading the next
\* one, whose new complaint it left alone
C18_Witness ==
  /\ fetchRet.err = "nil"
  /\ Len(scraped) = maxPages
  /\ currentPage = maxPages + 1
  /\ PageLinks(currentPage) # <<>>
  /\ \A i \in DOMAIN PageLinks(currentPage) :
       IsNew(PageLinks(currentPage)[i].ComplaintNumber)

-----------------------------------------------------------------------------
(* Properties of the worker pool *)

\* the places of the pool where the complaint numbered c is, as a job or
\* as its result
Places(c) ==
  Cardinality({i \in DOMAIN toSubmit : toSubmit[i].ComplaintNumber = c}) +
  Cardinality({i \in DOMAIN jobs : jobs[i].ComplaintNumber = c}) +
  Cardinality({w \in Workers : busy[w].ComplaintNumber = c}) +
  Cardinality({w \in Workers : sending[w].ComplaintID = c}) +
  Cardinality({i \in DOMAIN results : results[i].ComplaintID = c}) +
  Cardinality({i \in DOMAIN collected : collected[i].ComplaintID = c})

Submitted == {complaints[i].ComplaintNumber : i \in DOMAIN complaints}

\* every submitted complaint is in one place and no worker has panicked
NoJobDropped ==
  /\ \A c \in Submitted : Places(c) = 1
  /\ \A w \in Workers : workerPc[w] # "panicked"

\* the results are closed after the jobs and after every worker's exit
ClosedInOrder ==
  resultsClosed => jobsClosed /\ \A w \in Workers : workerPc[w] = "exited"

\* the collector leaves its loop with one result per submitted complaint
AllCollected ==
  collectPc = "done" =>
    /\ Len(collected) = Len(complaints)
    /\ \A c \in Submitted :
         Cardinality({i \in DOMAIN collected : collected[i].ComplaintID = c}) = 1

\* C19: whatever the number of complaints submitted, the buffers of jobs
\* and of results being smaller or not, no job is dropped: every
\* submitted complaint is at any time in one place of the pool, the
\* result channel is closed only after the job channel is closed and
\* every worker has exited, and the collector ends its loop, having
\* received one ProcessResult for each submitted complaint.
C19_NoJobDropped ==
  /\ [](NoJobDropped /\ ClosedInOrder /\ AllCollected)
  /\ <>(collectPc = "done")

\* more complaints than either buffer holds were submitted and collected
C19_Witness ==
  /\ collectPc = "done"
  /\ Len(collected) > JobBuffer
  /\ Len(collected) > ResultBuffer
  /\ \E i \in DOMAIN collected : collected[i].Error
  /\ \E i \in DOMAIN collected : ~collected[i].Error

-----------------------------------------------------------------------------
(* Properties of the resolution from the chat *)

\* handleMessage runs, or has run, for a text that is not the cancel
\* keyword, of a user with an entry for a complaint of the ledger
NoteForStored ==
  /\ handling.had
  /\ handling.text # <<>>
  /\ ~isCancel(handling.text)
  /\ handling.exists

Position(ev) == {i \in DOMAIN handling.log : handling.log[i] = ev}

\* the events ev of the handler all come after an event before
After(ev, before) ==
  \A i \in Position(ev) : \E j \in Position(before) : j < i

\* the edit comes after the call's success, the removal after the edit's
InOrder ==
  /\ After("edited", "call ok")
  /\ After("edit failed", "call ok")
  /\ After("removed", "edited")
  /\ After("not removed", "edited")
  /\ "call failed" \notin SeqSet(handling.log)
       \/ SeqSet(handling.log) \cap {"call ok", "edited", "edit failed", "removed", "not removed"} = {}

\* one call, with the API id the ledger held and the text as the remark
OneCall ==
  handling.calls = <<[apiID |-> handling.apiID, remark |-> handling.text]>>

\* C20 as stated: a note for a stored complaint makes one resolution call
\* with the complaint's API id and the text, the edit follows the call's
\* success and the removal the edit's, and when the handler has returned
\* the complaint is not in the ledger and the user has no entry.
C20_NoteAlwaysResolves ==
  NoteForStored /\ handling.pc = "done" =>
    /\ OneCall
    /\ InOrder
    /\ ~Exists(handling.pending.ComplaintNumber)
    /\ handling.user \notin DOMAIN pendingResolutions

\* C20: a note for a stored complaint pops the user's entry, which is
\* absent from then on until the handler has returned; the handler
\* makes one resolution call with the complaint's API id and the text
\* when the ledger has an API id for the complaint, and none otherwise;
\* it edits the message only after the call succeeded and removes the
\* record only after the edit succeeded; when the call and the edit have
\* both succeeded the complaint is not in the ledger as the handler
\* returns.
C20_NoteResolvesOnSuccess ==
  NoteForStored =>
    /\ InOrder
    /\ IF handling.apiID = <<>> THEN handling.calls = <<>> ELSE OneCall
    /\ handling.user \notin DOMAIN pendingResolutions
    /\ handling.pc = "done" /\ "edited" \in SeqSet(handling.log)
         => ~Exists(handling.pending.ComplaintNumber)

\* a note resolved a stored complaint: call, edit and removal all done
C20_Witness ==
  /\ NoteForStored
  /\ handling.pc = "done"
  /\ handling.log = <<"call", "call ok", "edited", "removed">>
  /\ ~Exists(handling.pending.ComplaintNumber)

\* a button was pressed by a user whose entry names the button's complaint
SecondPress ==
  /\ press.pc = "done"
  /\ press.before.ComplaintNumber = press.complaintNumber

\* C21 as stated: a press of resolve:d by a user with an entry for d
\* removes the entry, deletes the prompt the entry names and answers
\* that the resolution is cancelled.
C21_ToggleAlwaysCancels ==
  SecondPress =>
    /\ press.user \notin DOMAIN pendingResolutions
    /\ press.answer = "Resolution cancelled"
    /\ press.before.PromptMessageID > 0 => press.deleted

\* a note whose ResolveComplaint call failed
CallFailed == "call failed" \in SeqSet(handling.log)

\* C22: when ResolveComplaint fails the handler sends the error reply and
\* returns: it does not edit the message, and the step that ends it
\* leaves the maps and the file of the ledger as they were, the
\* complaint with its message id and API id.
C22_FailedCallLeavesLedger ==
  /\ [](CallFailed => /\ handling.pc = "done"
                      /\ handling.log = <<"call", "call failed", "error reply">>
                      /\ chat = <<>>)
  /\ [][CallFailed' /\ ~CallFailed => UNCHANGED <<ledgerVars, pendingResolutions>>]_vars

\* a call failed, for a complaint that is still in the ledger
C22_Witness ==
  /\ CallFailed
  /\ Exists(handling.pending.ComplaintNumber)
  /\ GetMessageID(handling.pending.ComplaintNumber) = handling.pending.MessageID
  /\ GetAPIID(handling.pending.ComplaintNumber) = handling.apiID

\* the last text came from a user whose entry named a complaint that the
\* ledger did not hold, and was not the cancel keyword
NoteForAbsent ==
  /\ handling.had
  /\ handling.text # <<>>
  /\ ~isCancel(handling.text)
  /\ ~handling.exists

C24_CreatedWhileStored ==
  press.pc = "done" /\ press.answer \in {"Please send your remarks", "Error sending prompt"}
    => press.inLedger

\* main is inside fetchWithRetry
InFetchWithRetry == mainPc \in {"attempt", "relogin", "restart"}

\* the running fetchWithRetry comes to its end with this step: the sweep
\* and the success status, or the error status and the alert
RunsToCompletion(ev1, ev2) ==
  /\ ev2 # ev1
  /\ ev2[Len(ev2)] \in {"status:success", "alert"}

\* C26 as stated: when the shutdown signal has arrived while
\* fetchWithRetry is in flight, that fetchWithRetry is cancelled: it does
\* not run to its completion.
C26_ShutdownCancelsFetch ==
  [][signalled /\ InFetchWithRetry => ~RunsToCompletion(events, events')]_vars

Logins == {"Login:nil", "Login:err"}

\* the order of the ladder at position i of a run of fetchWithRetry
LadderOrder(ev, i) ==
  /\ ev[i] \in Logins =>
        /\ i > 1
        /\ ev[i - 1] \in {"FetchAll:SessionExpired", "NewContext"}
  /\ ev[i] = "NewContext" =>
        /\ i > 2
        /\ ev[i - 1] = "Login:err"
        /\ ev[i - 2] = "FetchAll:SessionExpired"
  /\ (i > 1 /\ ev[i - 1] = "NewContext") => ev[i] \in Logins
  /\ (i > 1 /\ ev[i - 1] = "FetchAll:Fetch") => ev[i] \notin Logins \cup {"NewContext"}

\* C28: in a run of fetchWithRetry, Login is called only right after a
\* FetchAll that returned a SessionExpiredError or right after the new
\* browser context was installed; a new context is installed only right
\* after the Login that followed a SessionExpiredError has failed, and
\* the one thing done on it before the next attempt is one Login; after
\* a FetchAll that returned another error comes neither a Login nor a
\* new context.
C28_LadderOrder ==
  /\ \A i \in DOMAIN events : LadderOrder(events, i)
  /\ InFetchWithRetry =>
       /\ mainPc = "relogin" <=>
            (events # <<>> /\ events[Len(events)] = "FetchAll:SessionExpired")
       /\ mainPc = "restart" <=> (events # <<>> /\ events[Len(events)] = "NewContext")

\* a run that went down the whole ladder and, after a generic error,
\* fetched again
C28_Witness ==
  \E i \in DOMAIN events :
    /\ events[i] = "NewContext"
    /\ i + 3 \in DOMAIN events
    /\ events[i + 1] \in Logins
    /\ events[i + 2] = "FetchAll:Fetch"
    /\ events[i + 3] \in FetchAllEvents

-----------------------------------------------------------------------------
(* Properties of the update loop *)

\* the updates that were given to a handler
ToHandlers == SelectSeq(dispatched, LAMBDA u : u.kind \in {"callback", "message"})

Ascending(us) == \A i, j \in DOMAIN us : i < j => us[i].UpdateID < us[j].UpdateID

\* the offset after the updates the loop has been through
Cursor == IF dispatched = <<>> THEN 0 ELSE dispatched[Len(dispatched)].UpdateID + 1

\* C25: the loop goes through the updates in ascending order of their
\* ids and gives none to a handler twice; once it has been through the
\* update u, offset is u + 1; every getUpdates passes the offset of that
\* moment; and a getUpdates that fails leaves offset as it was.
C25_UpdateCursor ==
  /\ [](/\ Ascending(dispatched)
        /\ Ascending(ToHandlers)
        /\ poller.offset = Cursor
        /\ Ascending(poller.updates)
        /\ \A i \in DOMAIN poller.updates : poller.updates[i].UpdateID >= poller.offset)
  /\ [][/\ poller'.passed # poller.passed => poller'.passed = poller.offset
        /\ poller'.failed # poller.failed => poller'.offset = poller.offset]_vars

\* two answers of getUpdates were gone through, with a failed poll after
\* the first
C25_Witness ==
  /\ Len(ToHandlers) >= 2
  /\ poller.failed >= 1
  /\ poller.pc = "poll"
  /\ poller.passed = ToHandlers[1].UpdateID + 1
  /\ poller.offset > poller.passed

-----------------------------------------------------------------------------
(* Properties of ComplaintStorage *)

\* what the IsNew calls returned
Answers == UNION {{gor[g].got[i] : i \in DOMAIN gor[g].got} : g \in DOMAIN gor}

\* C27: IsNew(c) returns false when c came from the file or a
\* MarkAsSeen(c) had returned before IsNew got the mutex, and true when
\* c did not come from the file and no MarkAsSeen(c) had got the mutex
\* before IsNew returned; the map holds the ids of the file and those MarkAsSeen has
\* returned for, no other; and whatever the interleaving of the
\* goroutines, every call returns and main receives from every goroutine.
C27_IsNewMarkAsSeen ==
  /\ [](/\ \A r \in Answers :
             /\ r.id \in storage.loaded \cup r.before => ~r.isNew
             /\ r.id \notin storage.loaded \cup r.called => r.isNew
        /\ storage.seen = storage.loaded \cup storage.returned
        /\ \A c \in TestIDs : notSeen(storage.seen, c) <=> c \notin storage.loaded \cup storage.returned)
  /\ <>(done = NumGoroutines /\ \A g \in Goroutines : gor[g].pc = "exited" /\ gor[g].todo = <<>>)

\* an IsNew returned true for one id, another returned false for an id
\* that MarkAsSeen had been called with, and every goroutine is done
C27_Witness ==
  /\ done = NumGoroutines
  /\ \E r1, r2 \in Answers : r1.isNew /\ ~r2.isNew /\ r2.id \in r2.before /\ r1.id # r2.id

-----------------------------------------------------------------------------
(* Properties of the ContextHolder *)

\* the context installed last
Installed == sessions.installed[Len(sessions.installed)]

\* the contexts installed before the last
Earlier == {sessions.installed[i] : i \in 1..(Len(sessions.installed) - 1)}

\* C29: the holder's context is the one installed last, and every
\* context installed before it has been cancelled; Set cancels the old
\* context before it installs the new one, holding the write lock
\* throughout; a Get that has the read lock returns the context installed
\* last, no writer being inside; a context is cancelled by Set and Cancel
\* only, under the write lock, and it is the holder's.
C29_Holder ==
  /\ [](/\ holder.ctx = Installed
        /\ Earlier \subseteq sessions.cancelled
        /\ holder.cancel \in {0, holder.ctx}
        /\ holder.cancel = 0 => holder.ctx \in sessions.cancelled
        /\ rw.writer # 0 => rw.readers = {}
        /\ \A c \in DOMAIN callers :
             /\ callers[c].pc = "read" => c \in rw.readers
             /\ callers[c].pc \in {"locked", "install"} => rw.writer = c
             /\ callers[c].pc = "install" => holder.ctx \in sessions.cancelled)
  /\ [][/\ sessions'.cancelled # sessions.cancelled =>
             /\ rw.writer # 0
             /\ callers[rw.writer].op \in {"Set", "Cancel"}
             /\ sessions'.cancelled = sessions.cancelled \cup {holder.ctx}
        /\ \A c \in DOMAIN callers :
             (callers[c].pc = "read" /\ callers'[c].pc = "idle") =>
               /\ callers'[c].ctx = Installed
               /\ UNCHANGED <<holder, sessions>>]_vars

\* a Get returned the second context, a third was installed after it, and
\* the holder was cancelled in the end
C29_Witness ==
  /\ Len(sessions.installed) = 3
  /\ holder.cancel = 0
  /\ sessions.cancelled = {1, 2, 3}
  /\ \E c \in DOMAIN callers : callers[c].op = "Get" /\ callers[c].pc = "idle" /\ callers[c].ctx = 2

-----------------------------------------------------------------------------
(* Properties of a page's jobs *)

\* the complaints of the results that carry an error
FailedIDs(rs) == {r.ComplaintID : r \in {x \in SeqSet(rs) : x.Error}}

\* the complaints of the results with no error and a message id
SentIDs(rs) == {r.ComplaintID : r \in {x \in SeqSet(rs) : ~x.Error /\ x.MessageID # <<>>}}

\* a worker's processComplaint returns with this step
JobEnds(w) == busy[w] # NoJob /\ busy'[w] = NoJob /\ restarts' = restarts

\* the collector's range is over and the batch is saved with this step
CollectStep == pc = "pool" /\ pc' # "pool" /\ restarts' = restarts

-----------------------------------------------------------------------------
(* Properties of the pool's end *)

\* processComplaintsConcurrently is over: the submitting goroutine has
\* closed both channels, every worker has left its loop and called Done,
\* and the collector's range has ended with nothing left in a channel
PoolTerminated ==
  /\ submitPc = "done"
  /\ toSubmit = <<>>
  /\ jobsClosed /\ jobs = <<>>
  /\ \A w \in Workers : workerPc[w] = "exited"
  /\ wg = 0
  /\ resultsClosed /\ results = <<>>
  /\ collectPc = "done"

\* C31: whatever the number of complaints and with the buffers of both
\* channels smaller than it, the pool is never stuck before its end (some
\* goroutine can always take a step), and when every processComplaint
\* returns it comes to its end and stays there: the jobs are closed, the
\* workers have exited, the results are closed and the collector has
\* returned.
C31_PoolTerminates ==
  /\ [](PoolTerminated \/ ENABLED PoolNext)
  /\ [](submitPc \in {"wait", "done"} => jobsClosed /\ toSubmit = <<>>)
  /\ <>[]PoolTerminated

\* a page of more complaints than the workers and the buffers hold
\* together has gone through the pool
C31_Witness ==
  /\ PoolTerminated
  /\ Len(complaints) = MaxComplaints
  /\ Len(collected) = MaxComplaints

(* Properties of the text that answers a prompt *)

\* the outcomes handleMessage ends with for a text that found an entry
Outcomes ==
  {<<"cancelled">>, <<"already resolved">>, <<"no API id">>,
   <<"call", "call failed", "error reply">>,
   <<"call", "call ok", "edit failed">>,
   <<"call", "call ok", "edited", "removed">>,
   <<"call", "call ok", "edited", "not removed">>}

\* C32: a text that is not empty, sent by a user who has a pending entry,
\* takes the entry out of the map: from the step that takes the text in to
\* the end of handleMessage the user has no entry, whichever way it ends
\* (cancelled, already resolved, no API id, call failed, edit failed, removed)
C32_TextConsumesEntry ==
  [][/\ (handling' # handling /\ handling'.had) =>
          /\ handling'.user \notin DOMAIN pendingResolutions'
          /\ handling'.text # <<>>
          /\ handling'.pc = "done" => handling'.log \in Outcomes
     /\ (handleMessage /\ ~handling'.had) => UNCHANGED pendingResolutions]_vars

C32_Witness ==
  /\ handling.had /\ handling.pc = "done"
  /\ handling.log = <<"call", "call ok", "edit failed">>
  /\ handling.user \notin DOMAIN pendingResolutions

\* the texts of Texts that read "cancel" once the surrounding white space
\* is taken off and the case of the letters is ignored
CancelTexts == {CancelWord, <<" ", "C", "a", "n", "c", "e", "l">>}

\* C33: the text of a user who has a pending entry being the cancel keyword,
\* whatever its case and the white space around it, handleMessage ends at
\* once with the cancel reply: no ResolveComplaint call, no edit of the
\* complaint's message, and the ledger (index and file) as it was
C33_CancelKeyword ==
  [][(handling' # handling /\ handling'.had /\ handling'.text \in CancelTexts) =>
       /\ handling'.pc = "done"
       /\ handling'.log = <<"cancelled">>
       /\ handling'.calls = <<>>
       /\ UNCHANGED <<ledgerVars, chat, portal>>]_vars

C33_Witness ==
  /\ handling.had /\ handling.pc = "done"
  /\ handling.text = <<" ", "C", "a", "n", "c", "e", "l">>
  /\ handling.exists /\ handling.apiID # <<>>
  /\ handling.log = <<"cancelled">>

(* Properties of the press on another complaint's button *)

\* the press being stored is by a user whose entry is for another complaint
OtherPress ==
  /\ press.pc = "store"
  /\ press.user \in DOMAIN pendingResolutions
  /\ pendingResolutions[press.user].ComplaintNumber # press.complaintNumber

\* C34: a user who has a pending entry for one complaint and presses the
\* button of another, whose message id the ledger gave, has the entry
\* replaced by one for the complaint pressed, with its message id; in
\* every state the pending map has at most one entry per user, for a
\* complaint
C34_OtherPressOverwrites ==
  /\ [](/\ DOMAIN pendingResolutions \subseteq members
        /\ \A u \in DOMAIN pendingResolutions :
             pendingResolutions[u].ComplaintNumber \in SysIds)
  /\ [][(OtherPress /\ press' # press) =>
          /\ press'.pc = "done"
          /\ DOMAIN pendingResolutions' = DOMAIN pendingResolutions
          /\ pendingResolutions'[press.user].ComplaintNumber = press.complaintNumber
          /\ pendingResolutions'[press.user].MessageID = press.messageID]_vars

C34_Witness ==
  /\ press.pc = "done"
  /\ press.before.ComplaintNumber \in SysIds \ {press.complaintNumber}
  /\ press.user \in DOMAIN pendingResolutions
  /\ pendingResolutions[press.user].ComplaintNumber = press.complaintNumber

(* Properties of the prompt that could not be sent *)

\* C35: the pending entry is put in the map only once its prompt has been
\* sent: after a press whose prompt could not be sent the user has no
\* entry, and no ResolveComplaint call is made for an entry without a prompt
C35_NoEntryWithoutPrompt ==
  /\ (press.pc = "done" /\ press.answer = "Error sending prompt") =>
        press.user \notin DOMAIN pendingResolutions
  /\ handling.calls # <<>> => handling.pending.PromptMessageID > 0

(* Properties of the ledger after the chat resolution *)

\* handleMessage has ended after a ResolveComplaint call that succeeded
ResolvedByNote ==
  /\ handling.pc = "done"
  /\ \E i \in DOMAIN handling.log : handling.log[i] = "call ok"

\* C36: once handleMessage has ended after a ResolveComplaint call that
\* succeeded, the complaint is no longer in the ledger, the edit of its chat
\* message having succeeded or failed
C36_ResolvedLeavesLedger ==
  ResolvedByNote => ~Exists(handling.pending.ComplaintNumber)

(* Properties of main's startup *)

\* a Login of the startup loop has returned nil
LoggedIn == \E i \in DOMAIN startup.logins : startup.logins[i] = "nil"

\* C37: no FetchAll runs before a Login of the startup loop has succeeded;
\* the loop calls Login at most MAX_LOGIN_RETRIES times and not again after
\* the first success; all its calls having failed, the process ends
\* without a fetch
C37_StartupOrder ==
  /\ events # <<>> => LoggedIn
  /\ startup.max >= 0 => Len(startup.logins) <= startup.max
  /\ \A i \in DOMAIN startup.logins : startup.logins[i] = "nil" => i = Len(startup.logins)
  /\ (mainPc \notin {"login"} /\ ~LoggedIn) => mainPc = "fatal" /\ events = <<>>

(* Properties of the update loop's end *)

\* what HandleUpdates has left to do before its select: the sleep, or the
\* updates of the batch not yet handled
LeftToDo(p) ==
  CASE p.pc = "stopped" -> 0
    [] p.pc = "poll" -> 1
    [] p.pc = "sleep" -> 2
    [] p.pc = "range" -> 1 + Len(p.updates)

\* C38: once ctx is done HandleUpdates calls getUpdates no more; it ends the
\* sleep or the batch it was in, each of its steps leaving less to do, takes
\* the ctx.Done() case at its next select and returns
C38_LoopStopsOnCancel ==
  /\ [][poller.ctxDone =>
          /\ ~getUpdates /\ ~getUpdatesFails
          /\ poller'.ctxDone
          /\ poller' # poller => LeftToDo(poller') < LeftToDo(poller)]_vars
  /\ (poller.ctxDone ~> poller.pc = "stopped")
  /\ [](poller.pc = "stopped" => poller.ctxDone)

C38_Witness ==
  /\ poller.pc = "stopped"
  /\ poller.failed > 0
  /\ dispatched # <<>>
  /\ server.held # <<>>

(* Properties of the keys of the file *)

\* the rows of four fields of a file content, in the order of the file
FullRows(data) == SelectSeq(parseAll(data, <<>>).records, LAMBDA r : Len(r) = 4)

\* no two rows of four fields have the same complaint number
UniqueKeys(data) ==
  \A i, j \in DOMAIN FullRows(data) :
    FullRows(data)[i][1] = FullRows(data)[j][1] => i = j

\* C39: in every reachable state the ledger file holds at most one row for
\* a complaint number, and the maps hold message id, API id and name for
\* complaint numbers of the index only
C39_UniqueOnDisk ==
  /\ UniqueKeys(complaintFile)
  /\ DOMAIN messageIDs \cup DOMAIN apiIDs \cup DOMAIN consumerNames \subseteq seen

(* Properties of the resolution calls of a complaint *)

\* C40: whatever buttons are pressed and texts sent, ResolveComplaint
\* returns nil at most once for a complaint: a text that comes after the
\* call succeeded finds the complaint gone from the ledger
C40_OneSuccessfulCall == \A c \in SysIds : succeeded[c] <= 1

====
